---- MODULE Spec2Model ----
(***************************************************************************)
(* Draft / case / follow-up ledger model of the SNF Patient Navigator      *)
(* case collection app (src/db.py, src/openai_integration.py,              *)
(* src/session_timer.py and the intake pages under src/pages).             *)
(*                                                                         *)
(* Text is modelled as a sequence of one-character strings so that         *)
(* str.lower(), str.replace() and f-string concatenation are computed,     *)
(* not assumed.  SQL NULL / Python None is the value Null for text         *)
(* columns, NoneInt for integer columns and NoneDict for dict arguments.   *)
(* A table without ORDER BY semantics is a bag of rows (the uuid primary   *)
(* key of a row is its multiplicity slot in the bag).                      *)
(***************************************************************************)
EXTENDS Bags, FiniteSets, Integers, Naturals, Sequences, TLC

VARIABLES
    drafts,         \* table draft_cases: bag of DraftCase rows
    last_saved,     \* history: per (owner key, form kind) the arguments of the
                    \* last save_draft_case call since the last delete
    n_saves,        \* history: number of save_draft_case calls since the last
                    \* delete, per (owner key, form kind)
    cases,          \* table cases: sequence of Case rows in created_at order
    fin,            \* history: the create_case calls made so far, in call order
    tabs,           \* per browser tab: the create_case call in progress
    questions,      \* table follow_up_questions: sequence of rows, the id of a
                    \* row being its position
    batches,        \* history: the create_follow_up_questions calls so far
    ss,             \* st.session_state of the browser session on an intake page
    now,            \* datetime.utcnow(), in seconds
    audio_responses,\* table audio_responses: sequence of rows
    last_run,       \* history: what the last run of the page script did
    service         \* the generation service as the next call finds it: API
                    \* key configured or not, call outcome, reply text

vars == <<drafts, last_saved, n_saves, cases, fin, tabs, questions, batches,
          ss, now, audio_responses, last_run, service>>

draftVars == <<drafts, last_saved, n_saves>>
caseVars == <<cases, fin, tabs>>
ledgerVars == <<questions, batches>>
pageVars == <<ss, now, audio_responses, last_run, service>>

(***************************************************************************)
(* Text helpers                                                            *)
(***************************************************************************)
Null == "<null>"
NoneInt == -1
NoneDict == [none |-> TRUE]

\* str.lower() on the alphabet used for user names
LowerChar(c) ==
    CASE c = "J" -> "j"
      [] c = "D" -> "d"
      [] OTHER -> c

lower(s) == [i \in 1..Len(s) |-> LowerChar(s[i])]

\* Python truthiness of an optional text value
Truthy(x) == x # Null /\ x # ""

\* "x or None"
OrNone(x) == IF Truthy(x) THEN x ELSE Null

\* "d or {}" for an optional dict
OrEmptyDict(d) == IF d = NoneDict \/ DOMAIN d = {} THEN <<>> ELSE d

\* json.loads(json.dumps(d)) for a dict with string keys: the keys and the
\* values are kept, a dict is never None after the round trip
json_dumps(d) == [k \in DOMAIN d |-> d[k]]

(***************************************************************************)
(* Users and form kinds                                                    *)
(***************************************************************************)
JD_upper == <<"J", " ", "D">>
JD_lower == <<"j", " ", "d">>
K_user == <<"k">>

DraftUsers == {JD_upper, JD_lower, K_user}
DraftKinds == {"abbrev", "full"}

OwnerKeys(users) == {lower(u) : u \in users}

(***************************************************************************)
(* Draft store: src/db.py save_draft_case / get_draft_case /               *)
(* has_draft_case / delete_draft_case                                      *)
(***************************************************************************)
QIds == {"q1", "q2"}

\* the filter comparing the user name as stored, letter case included
DraftFilter_exact_name(tbl, user_name, intake_version) ==
    {r \in BagToSet(tbl) :
        r.user_name = user_name /\ r.intake_version = intake_version}

\* rows of draft_cases matching the filter
\*   func.lower(DraftCase.user_name) == user_name.lower(),
\*   DraftCase.intake_version == intake_version
DraftFilter(tbl, user_name, intake_version) ==
    {r \in BagToSet(tbl) :
        lower(r.user_name) = lower(user_name) /\ r.intake_version = intake_version}

\* .count() of the filter
DraftCount(tbl, user_name, intake_version) ==
    LET m == DraftFilter(tbl, user_name, intake_version)
        RECURSIVE Sum(_)
        Sum(S) == IF S = {} THEN 0
                  ELSE LET r == CHOOSE x \in S : TRUE
                       IN CopiesIn(r, tbl) + Sum(S \ {r})
    IN Sum(m)

NoDraft == [none |-> TRUE]

DraftRow(user_name, intake_version, p) ==
    [user_name |-> user_name,
     intake_version |-> intake_version,
     age_at_snf_stay |-> p.age,
     gender |-> p.gender,
     race |-> p.race,
     state |-> p.state,
     answers_json |-> json_dumps(OrEmptyDict(p.answers)),
     audio_json |-> json_dumps(OrEmptyDict(p.audio))]

\* the update branch: every column but id, user_name, intake_version and
\* created_at is assigned from the arguments
UpdatedDraftRow(existing, p) ==
    [existing EXCEPT
        !.age_at_snf_stay = p.age,
        !.gender = p.gender,
        !.race = p.race,
        !.state = p.state,
        !.answers_json = json_dumps(OrEmptyDict(p.answers)),
        !.audio_json = json_dumps(OrEmptyDict(p.audio))]

\* save_draft_case without the lookup of the existing row: always inserts
save_draft_case_insert_only(tbl, existing, user_name, intake_version, p) ==
    tbl (+) SetToBag({DraftRow(user_name, intake_version, p)})

\* the table after save_draft_case, given the row .first() returned
\* (NoDraft when the filter is empty)
save_draft_case(tbl, existing, user_name, intake_version, p) ==
    IF existing # NoDraft
    THEN (tbl (-) SetToBag({existing})) (+) SetToBag({UpdatedDraftRow(existing, p)})
    ELSE tbl (+) SetToBag({DraftRow(user_name, intake_version, p)})

\* the rows .first() may return
FirstDraft(tbl, user_name, intake_version) ==
    LET m == DraftFilter(tbl, user_name, intake_version)
    IN IF m = {} THEN {NoDraft} ELSE m

get_draft_case(tbl, user_name, intake_version) ==
    CHOOSE r \in FirstDraft(tbl, user_name, intake_version) : TRUE

has_draft_case(tbl, user_name, intake_version) ==
    DraftCount(tbl, user_name, intake_version) > 0

delete_draft_case(tbl, existing) ==
    IF existing # NoDraft THEN tbl (-) SetToBag({existing}) ELSE tbl

(***************************************************************************)
(* Case store: src/db.py get_next_case_number / generate_case_id /         *)
(* create_case                                                             *)
(***************************************************************************)
JD_under == <<"j", "_", "d">>
JD_tab == <<"j", "\t", "d">>

Digit(n) ==
    CASE n = 0 -> "0" [] n = 1 -> "1" [] n = 2 -> "2" [] n = 3 -> "3"
      [] n = 4 -> "4" [] n = 5 -> "5" [] n = 6 -> "6" [] n = 7 -> "7"
      [] n = 8 -> "8" [] n = 9 -> "9"

\* f"{case_number}": the decimal digits of a non-negative int
RECURSIVE str(_)
str(n) == IF n < 10 THEN <<Digit(n)>> ELSE str(n \div 10) \o <<Digit(n % 10)>>

\* s.replace(old, new) for one-character old and new
replace(s, old, new) == [i \in 1..Len(s) |-> IF s[i] = old THEN new ELSE s[i]]

\* session.query(Case).filter(func.lower(Case.user_name) == user_name.lower())
CasesOfUser(tbl, user_name) ==
    {i \in 1..Len(tbl) : lower(tbl[i].user_name) = lower(user_name)}

\* get_next_case_number that forgets the "+ 1"
get_next_case_number_count_only(tbl, user_name) ==
    Cardinality(CasesOfUser(tbl, user_name))

get_next_case_number(tbl, user_name) ==
    Cardinality(CasesOfUser(tbl, user_name)) + 1

\* generate_case_id that keeps the letter case of the user name
generate_case_id_keep_case(user_name, case_number) ==
    replace(user_name, " ", "_") \o <<"_">> \o str(case_number)

generate_case_id(user_name, case_number) ==
    LET normalized_name == replace(lower(user_name), " ", "_")
    IN normalized_name \o <<"_">> \o str(case_number)

CaseRow(case_id, intake_version, user_name, d, answers) ==
    [case_id |-> case_id,
     intake_version |-> intake_version,
     user_name |-> user_name,
     age_at_snf_stay |-> d.age,
     gender |-> d.gender,
     race |-> d.race,
     state |-> d.state,
     answers_json |-> json_dumps(answers)]

\* the primary key constraint on cases.case_id
PrimaryKeyFree(tbl, case_id) == \A i \in 1..Len(tbl) : tbl[i].case_id # case_id

\* session.add(case) without any primary key check at commit
CommitCase_no_pk(tbl, row, db_ok) ==
    IF db_ok THEN [ok |-> TRUE, tbl |-> Append(tbl, row)]
    ELSE [ok |-> FALSE, tbl |-> tbl]

\* session.add(case); session.commit(), or session.rollback() and re-raise
\* when the commit fails (db_ok is FALSE when the store is unavailable)
CommitCase(tbl, row, db_ok) ==
    IF db_ok /\ PrimaryKeyFree(tbl, row.case_id)
    THEN [ok |-> TRUE, tbl |-> Append(tbl, row)]
    ELSE [ok |-> FALSE, tbl |-> tbl]

\* create_case from the point where get_next_case_number has returned
\* case_number: [ok, case_id, tbl]
create_case_from(tbl, case_number, intake_version, user_name, d, answers, db_ok) ==
    LET case_id == generate_case_id(user_name, case_number)
        c == CommitCase(tbl, CaseRow(case_id, intake_version, user_name, d, answers), db_ok)
    IN [ok |-> c.ok, case_id |-> case_id, tbl |-> c.tbl]

create_case(tbl, intake_version, user_name, d, answers, db_ok) ==
    create_case_from(tbl, get_next_case_number(tbl, user_name),
                     intake_version, user_name, d, answers, db_ok)

(***************************************************************************)
(* Question generator: src/openai_integration.py parse_follow_up_response  *)
(*                                                                         *)
(* A line of the reply is a sequence of tokens: a letter, a digit, a       *)
(* punctuation mark, one blank, or a whole word.  A reply is the sequence  *)
(* of its lines (response_text.strip().split("\n")).                       *)
(***************************************************************************)
WS == " "

IsDigitTok(t) == t \in {"0", "1", "2", "3", "4", "5", "6", "7", "8", "9"}

DigitValue(t) == CHOOSE n \in 0..9 : Digit(n) = t

\* re.IGNORECASE on the tokens of the section headers
LowerTok(t) ==
    CASE t = "A" -> "a" [] t = "B" -> "b" [] t = "C" -> "c"
      [] t = "Reasoning" -> "reasoning" [] t = "Trace" -> "trace"
      [] t = "Discharge" -> "discharge" [] t = "Timing" -> "timing"
      [] t = "Dynamics" -> "dynamics" [] t = "SNF" -> "snf"
      [] t = "Patient" -> "patient" [] t = "State" -> "state"
      [] OTHER -> t

\* str.strip()
RECURSIVE strip(_)
strip(line) ==
    IF line = <<>> THEN <<>>
    ELSE IF Head(line) = WS THEN strip(Tail(line))
    ELSE IF line[Len(line)] = WS THEN strip(SubSeq(line, 1, Len(line) - 1))
    ELSE line

\* \s* from position i: the first position at or after i that holds no blank
RECURSIVE SkipWs(_, _)
SkipWs(line, i) ==
    IF i <= Len(line) /\ line[i] = WS THEN SkipWs(line, i + 1) ELSE i

\* the words in order from position i, each after optional blanks
RECURSIVE MatchWords(_, _, _)
MatchWords(line, i, words) ==
    IF words = <<>> THEN TRUE
    ELSE LET j == SkipWs(line, i)
         IN /\ j <= Len(line)
            /\ LowerTok(line[j]) = LowerTok(Head(words))
            /\ MatchWords(line, j + 1, Tail(words))

\* section_patterns
section_patterns ==
    [A |-> <<"Reasoning", "Trace">>,
     B |-> <<"Discharge", "Timing", "Dynamics">>,
     C |-> <<"SNF", "Patient", "State">>]

\* re.match(pattern, line, re.IGNORECASE) for the pattern of one section
SectionMatch(line, section) ==
    /\ Len(line) >= 2
    /\ LowerTok(line[1]) = LowerTok(section)
    /\ line[2] = ")"
    /\ MatchWords(line, 3, section_patterns[section])

NoSection == "none"

\* the loop over section_patterns.items(), first match wins
SectionOf(line) ==
    IF SectionMatch(line, "A") THEN "A"
    ELSE IF SectionMatch(line, "B") THEN "B"
    ELSE IF SectionMatch(line, "C") THEN "C"
    ELSE NoSection

\* the length of the run of digits that starts the line
RECURSIVE DigitRun(_, _)
DigitRun(line, i) ==
    IF i <= Len(line) /\ IsDigitTok(line[i]) THEN DigitRun(line, i + 1) ELSE i - 1

\* int(question_match.group(1))
RECURSIVE IntOf(_)
IntOf(digits) ==
    IF digits = <<>> THEN 0
    ELSE 10 * IntOf(SubSeq(digits, 1, Len(digits) - 1)) + DigitValue(digits[Len(digits)])

\* re.match(r"^\d+[.\)]", line)
StartsWithNumber(line) ==
    LET d == DigitRun(line, 1)
    IN d >= 1 /\ Len(line) > d /\ line[d + 1] \in {".", ")"}

\* re.match(r"^[A-C]\)", line)
StartsWithSectionLetter(line) ==
    Len(line) >= 2 /\ line[1] \in {"A", "B", "C"} /\ line[2] = ")"

\* the match that takes the first digit of the numbering for the number
QuestionMatch_first_digit(line) ==
    LET d == DigitRun(line, 1)
        j == SkipWs(line, d + 2)
    IN IF StartsWithNumber(line) /\ j <= Len(line)
       THEN [matched |-> TRUE,
             number |-> IntOf(SubSeq(line, 1, 1)),
             text |-> strip(SubSeq(line, j, Len(line)))]
       ELSE [matched |-> FALSE, number |-> 0, text |-> <<>>]

\* re.match(r"^(\d+)[.\)]\s*(.+)$", line): [matched, number, text]
QuestionMatch(line) ==
    LET d == DigitRun(line, 1)
        j == SkipWs(line, d + 2)
    IN IF StartsWithNumber(line) /\ j <= Len(line)
       THEN [matched |-> TRUE,
             number |-> IntOf(SubSeq(line, 1, d)),
             text |-> strip(SubSeq(line, j, Len(line)))]
       ELSE [matched |-> FALSE, number |-> 0, text |-> <<>>]

\* the continuation joined to the question text without the blank
AppendContinuation_no_space(question_text, line) == question_text \o line

\* questions[-1]["question_text"] += " " + line
AppendContinuation(question_text, line) == question_text \o <<WS>> \o line

\* the iteration that takes a numbered line for a question whether or not a
\* section header has been seen
ParseLine_any_section(st, raw) ==
    LET line == strip(raw)
        sec == SectionOf(line)
        qm == QuestionMatch(line)
        n == Len(st.questions)
    IN IF line = <<>> THEN st
       ELSE IF sec # NoSection THEN [st EXCEPT !.current_section = sec]
       ELSE IF qm.matched
       THEN [st EXCEPT !.questions =
                Append(@, [section |-> st.current_section,
                           question_number |-> qm.number,
                           question_text |-> qm.text])]
       ELSE IF n > 0 /\ st.current_section # NoSection
               /\ ~StartsWithSectionLetter(line) /\ ~StartsWithNumber(line)
       THEN [st EXCEPT !.questions[n].question_text = AppendContinuation(@, line)]
       ELSE st

\* one iteration of "for line in lines" on the state [questions, current_section]
ParseLine(st, raw) ==
    LET line == strip(raw)
        sec == SectionOf(line)
        qm == QuestionMatch(line)
        n == Len(st.questions)
    IN IF line = <<>> THEN st
       ELSE IF sec # NoSection THEN [st EXCEPT !.current_section = sec]
       ELSE IF qm.matched /\ st.current_section # NoSection
       THEN [st EXCEPT !.questions =
                Append(@, [section |-> st.current_section,
                           question_number |-> qm.number,
                           question_text |-> qm.text])]
       ELSE IF n > 0 /\ st.current_section # NoSection
               /\ ~StartsWithSectionLetter(line) /\ ~StartsWithNumber(line)
       THEN [st EXCEPT !.questions[n].question_text = AppendContinuation(@, line)]
       ELSE st

RECURSIVE ParseLines(_, _)
ParseLines(st, lines) ==
    IF lines = <<>> THEN st
    ELSE ParseLines(ParseLine(st, Head(lines)), Tail(lines))

parse_follow_up_response(response_text) ==
    ParseLines([questions |-> <<>>, current_section |-> NoSection], response_text).questions

(***************************************************************************)
(* Follow-up ledger: src/db.py create_follow_up_questions /                *)
(* get_follow_up_questions_for_case / update_follow_up_answer /            *)
(* get_cases_with_pending_follow_ups                                       *)
(***************************************************************************)
FollowUpRow(id, case_id, user_name, q) ==
    [id |-> id,
     case_id |-> case_id,
     user_name |-> user_name,
     section |-> q.section,
     question_number |-> q.question_number,
     question_text |-> q.question_text,
     answer_text |-> Null,
     answered_at |-> Null]

\* create_follow_up_questions that commits after every row
create_follow_up_questions_commit_each(tbl, case_id, qs, user_name, fail_at) ==
    LET n == IF fail_at = 0 \/ fail_at > Len(qs) THEN Len(qs) ELSE fail_at - 1
    IN [ok |-> fail_at = 0,
        tbl |-> tbl \o [i \in 1..n |-> FollowUpRow(Len(tbl) + i, case_id, user_name, qs[i])]]

\* create_follow_up_questions: the rows are added and flushed one by one in
\* one transaction, committed after the loop; fail_at = i makes the flush of
\* the i-th row raise, fail_at = Len(qs) + 1 the commit, 0 nothing.  An
\* exception rolls the transaction back and is re-raised.  [ok, tbl]
create_follow_up_questions(tbl, case_id, qs, user_name, fail_at) ==
    LET RECURSIVE Loop(_, _)
        Loop(pending, i) ==
            IF i > Len(qs)
            THEN IF fail_at = Len(qs) + 1
                 THEN [ok |-> FALSE, tbl |-> tbl]
                 ELSE [ok |-> TRUE, tbl |-> tbl \o pending]
            ELSE IF i = fail_at
            THEN [ok |-> FALSE, tbl |-> tbl]
            ELSE Loop(Append(pending,
                             FollowUpRow(Len(tbl) + i, case_id, user_name, qs[i])),
                      i + 1)
    IN Loop(<<>>, 1)

\* the rows of one case in table order
RowsOfCase(tbl, case_id) == SelectSeq(tbl, LAMBDA r : r.case_id = case_id)

SectionRank(sec) == CASE sec = "A" -> 1 [] sec = "B" -> 2 [] sec = "C" -> 3

\* ORDER BY section ASC, question_number ASC (rows that tie keep table order)
QuestionBefore(a, b) ==
    \/ SectionRank(a.section) < SectionRank(b.section)
    \/ a.section = b.section /\ a.question_number < b.question_number
    \/ a.section = b.section /\ a.question_number = b.question_number /\ a.id < b.id

RECURSIVE InsertSorted(_, _)
InsertSorted(sorted, r) ==
    IF sorted = <<>> THEN <<r>>
    ELSE IF QuestionBefore(r, Head(sorted)) THEN <<r>> \o sorted
    ELSE <<Head(sorted)>> \o InsertSorted(Tail(sorted), r)

RECURSIVE SortQuestions(_)
SortQuestions(rows) ==
    IF rows = <<>> THEN <<>>
    ELSE InsertSorted(SortQuestions(Tail(rows)), Head(rows))

get_follow_up_questions_for_case(tbl, case_id) == SortQuestions(RowsOfCase(tbl, case_id))

\* update_follow_up_answer that reports success for any question id
update_follow_up_answer_always_true(tbl, question_id, answer_text, t) ==
    IF question_id \in 1..Len(tbl)
    THEN [ok |-> TRUE, tbl |-> [tbl EXCEPT ![question_id].answer_text = answer_text,
                                           ![question_id].answered_at = t]]
    ELSE [ok |-> TRUE, tbl |-> tbl]

\* update_follow_up_answer at time t: [ok, tbl]
update_follow_up_answer(tbl, question_id, answer_text, t) ==
    IF question_id \in 1..Len(tbl)
    THEN [ok |-> TRUE, tbl |-> [tbl EXCEPT ![question_id].answer_text = answer_text,
                                           ![question_id].answered_at = t]]
    ELSE [ok |-> FALSE, tbl |-> tbl]

\* .count() of the question rows of a case
CountQuestions(tbl, case_id) ==
    Cardinality({i \in 1..Len(tbl) : tbl[i].case_id = case_id})

\* the unanswered count taking the literal "N/A" for unanswered as well
CountUnanswered_na_pending(tbl, case_id) ==
    Cardinality({i \in 1..Len(tbl) :
        tbl[i].case_id = case_id /\ tbl[i].answer_text \in {Null, "N/A"}})

\* .count() of the rows of a case with answer_text IS NULL
CountUnanswered(tbl, case_id) ==
    Cardinality({i \in 1..Len(tbl) :
        tbl[i].case_id = case_id /\ tbl[i].answer_text = Null})

PendingEntry(qtbl, c) ==
    LET total_questions == CountQuestions(qtbl, c.case_id)
        unanswered == CountUnanswered(qtbl, c.case_id)
    IN [case_id |-> c.case_id,
        intake_version |-> c.intake_version,
        total_questions |-> total_questions,
        answered_questions |-> total_questions - unanswered,
        unanswered_questions |-> unanswered,
        is_complete |-> unanswered = 0]

\* get_cases_with_pending_follow_ups: the user's cases, newest first, that
\* have at least one question
RECURSIVE PendingFrom(_, _, _, _)
PendingFrom(ctbl, qtbl, user_name, i) ==
    IF i = 0 THEN <<>>
    ELSE LET c == ctbl[i]
             rest == PendingFrom(ctbl, qtbl, user_name, i - 1)
         IN IF lower(c.user_name) = lower(user_name) /\ CountQuestions(qtbl, c.case_id) > 0
            THEN <<PendingEntry(qtbl, c)>> \o rest
            ELSE rest

get_cases_with_pending_follow_ups(ctbl, qtbl, user_name) ==
    PendingFrom(ctbl, qtbl, user_name, Len(ctbl))

\* generate_follow_up_questions that calls the service a second time when
\* the first call failed
generate_follow_up_questions_retry(has_key, api_ok, reply) ==
    IF ~has_key
    THEN [success |-> FALSE, questions |-> <<>>, calls |-> 0,
          error_msg |-> "OpenAI API key not configured in secrets"]
    ELSE IF ~api_ok
    THEN [success |-> FALSE, questions |-> <<>>, calls |-> 2,
          error_msg |-> "OpenAI API call failed"]
    ELSE LET qs == parse_follow_up_response(reply)
         IN IF qs = <<>>
            THEN [success |-> FALSE, questions |-> <<>>, calls |-> 1,
                  error_msg |-> "Failed to parse follow-up questions from API response"]
            ELSE [success |-> TRUE, questions |-> qs, calls |-> 1, error_msg |-> Null]

\* generate_follow_up_questions: has_key is whether an API key is configured,
\* api_ok whether the chat completion call returned, reply the returned text
\* [success, questions, error_msg], and calls, the number of times
\* client.chat.completions.create was called
generate_follow_up_questions(has_key, api_ok, reply) ==
    IF ~has_key
    THEN [success |-> FALSE, questions |-> <<>>, calls |-> 0,
          error_msg |-> "OpenAI API key not configured in secrets"]
    ELSE IF ~api_ok
    THEN [success |-> FALSE, questions |-> <<>>, calls |-> 1,
          error_msg |-> "OpenAI API call failed"]
    ELSE LET qs == parse_follow_up_response(reply)
         IN IF qs = <<>>
            THEN [success |-> FALSE, questions |-> <<>>, calls |-> 1,
                  error_msg |-> "Failed to parse follow-up questions from API response"]
            ELSE [success |-> TRUE, questions |-> qs, calls |-> 1, error_msg |-> Null]


(***************************************************************************)
(* Intake pages: src/pages/1_Abbreviated_Intake.py,                        *)
(* src/pages/2_Abbreviated_Intake_General.py, src/pages/2_Full_Intake.py   *)
(* and src/session_timer.py.  Every interaction reruns the page script     *)
(* from the top; the form has one narrative question.                      *)
(***************************************************************************)
AUTO_SAVE_INTERVAL_SECONDS == 120

PageQ == "q1"
AudioBytes == "wav"
AudioMarker == "[Audio response]"

\* the parameters of create_case, none of which has a default
create_case_params ==
    {"intake_version", "user_name", "age_at_snf_stay", "gender", "race", "state",
     "snf_name", "snf_days", "services_discussed", "services_accepted",
     "services_utilized_after_discharge", "answers"}

\* the keyword arguments of the create_case call of each page
CallKeywords(kind) ==
    IF kind = "full"
    THEN {"intake_version", "user_name", "age_at_snf_stay", "gender", "race", "state",
          "snf_days", "services_discussed", "services_accepted", "answers"}
    ELSE {"intake_version", "user_name", "age_at_snf_stay", "gender", "race", "state",
          "snf_name", "snf_days", "services_discussed", "services_accepted",
          "services_utilized_after_discharge", "answers"}

\* the call binds every parameter; Python raises TypeError otherwise
CallBinds(kind) == create_case_params \subseteq CallKeywords(kind)

\* the validation that stops at the first missing field
validate_first_only(age, gender, race, state) ==
    IF age = NoneInt THEN <<"Age at SNF Stay is required">>
    ELSE IF ~Truthy(gender) THEN <<"Gender is required">>
    ELSE IF ~Truthy(race) THEN <<"Race is required">>
    ELSE IF ~Truthy(state) THEN <<"SNF State is required">>
    ELSE <<>>

\* the errors list of the Save Case validation
validate(age, gender, race, state) ==
    (IF age = NoneInt THEN <<"Age at SNF Stay is required">> ELSE <<>>)
    \o (IF ~Truthy(gender) THEN <<"Gender is required">> ELSE <<>>)
    \o (IF ~Truthy(race) THEN <<"Race is required">> ELSE <<>>)
    \o (IF ~Truthy(state) THEN <<"SNF State is required">> ELSE <<>>)

\* session state after the "not in st.session_state" initialisations and
\* init_session_timer at time t.  age, gender, race and state stand for the
\* widget keys and the demographics dict, which the script makes equal
\* on every run; audio_widget is the value the audio_input widget holds.
FreshSession(user_name, kind, t) ==
    [user |-> user_name,
     kind |-> kind,
     draft_checked |-> FALSE,
     pending_draft |-> NoDraft,
     draft_loaded |-> FALSE,
     age |-> NoneInt,
     gender |-> "",
     race |-> "",
     state |-> "",
     answers |-> (PageQ :> ""),
     audio |-> (PageQ :> Null),
     audio_widget |-> Null,
     last_saved_case_id |-> Null,
     last_auto_save_time |-> t]

\* "Check for existing draft on first load"
DraftCheck(s, tbl) ==
    IF s.draft_checked THEN s
    ELSE LET existing_draft == get_draft_case(tbl, s.user, s.kind)
         IN [s EXCEPT !.pending_draft = IF existing_draft # NoDraft THEN existing_draft ELSE @,
                      !.draft_checked = TRUE]

NoEdit == [field |-> "none"]

\* the widget the user changed before this run
ApplyEdit(s, e) ==
    CASE e.field = "age" -> [s EXCEPT !.age = e.value]
      [] e.field = "gender" -> [s EXCEPT !.gender = e.value]
      [] e.field = "race" -> [s EXCEPT !.race = e.value]
      [] e.field = "state" -> [s EXCEPT !.state = e.value]
      [] e.field = "answer" -> [s EXCEPT !.answers = (PageQ :> e.value)]
      [] e.field = "audio" -> [s EXCEPT !.audio_widget = e.value]
      [] OTHER -> s

\* the narrative section: a recording held by the audio widget is copied to
\* the audio dict and an empty answer is replaced by the marker
RenderWidgets(s) ==
    IF s.audio_widget # Null
    THEN [s EXCEPT !.audio = (PageQ :> s.audio_widget),
                   !.answers = (PageQ :> IF Truthy(s.answers[PageQ])
                                         THEN s.answers[PageQ] ELSE AudioMarker)]
    ELSE s

DraftPayload(s) ==
    [age |-> s.age,
     gender |-> OrNone(s.gender),
     race |-> OrNone(s.race),
     state |-> OrNone(s.state),
     answers |-> s.answers,
     audio |-> [q \in DOMAIN s.audio |-> Truthy(s.audio[q])]]

\* save_current_draft: the draft table after the call
save_current_draft(s, tbl) ==
    save_draft_case(tbl, get_draft_case(tbl, s.user, s.kind), s.user, s.kind,
                    DraftPayload(s))

should_auto_save(s, t) == t - s.last_auto_save_time >= AUTO_SAVE_INTERVAL_SECONDS

mark_auto_saved(s, t) == [s EXCEPT !.last_auto_save_time = t]

\* the auto-save check that marks whatever save_current_draft returned
AutoSaveCheckOn_mark_always(s, tbl, t, db_ok) ==
    IF should_auto_save(s, t)
    THEN [ss |-> mark_auto_saved(s, t),
          drafts |-> IF db_ok THEN save_current_draft(s, tbl) ELSE tbl,
          saved |-> db_ok]
    ELSE [ss |-> s, drafts |-> tbl, saved |-> FALSE]

\* "if should_auto_save(): if save_current_draft(): mark_auto_saved()" with
\* the database reachable or not: save_current_draft returns False from its
\* except branch when save_draft_case raises
AutoSaveCheckOn(s, tbl, t, db_ok) ==
    IF should_auto_save(s, t)
    THEN IF db_ok
         THEN [ss |-> mark_auto_saved(s, t), drafts |-> save_current_draft(s, tbl),
               saved |-> TRUE]
         ELSE [ss |-> s, drafts |-> tbl, saved |-> FALSE]
    ELSE [ss |-> s, drafts |-> tbl, saved |-> FALSE]

\* the auto-save check that saves on every run
AutoSaveCheck_every_run(s, tbl, t) ==
    [ss |-> mark_auto_saved(s, t), drafts |-> save_current_draft(s, tbl), saved |-> TRUE]

\* "Auto-save check (trigger every 2 minutes)"
AutoSaveCheck(s, tbl, t) ==
    AutoSaveCheckOn(s, tbl, t, TRUE)

\* the script from its top to the buttons row, with no banner button clicked
ScriptToButtons(s, tbl, t, e) ==
    AutoSaveCheck(RenderWidgets(ApplyEdit(DraftCheck(s, tbl), e)), tbl, t)

clear_form_state(s) ==
    [s EXCEPT
        !.answers = [q \in DOMAIN @ |-> ""],
        !.audio = [q \in DOMAIN @ |-> Null],
        !.age = NoneInt,
        !.gender = "",
        !.race = "",
        !.state = "",
        !.draft_loaded = FALSE]

\* save_audio_response: one row per question that has audio
AudioRow(case_id, question_id) ==
    [case_id |-> case_id, question_id |-> question_id, version_number |-> 1]

\* the else branch of "if success and questions": a warning is shown and the
\* handler goes on to clear the form
GenerationFailed(undrafted, cleared) ==
    [undrafted EXCEPT !.ss = cleared, !.generated = "failed"]

\* the handler with the draft deleted before the Case is written
HandlerCalls_draft_first ==
    <<"save_audio_response", "delete_draft_case", "create_case",
      "generate_follow_up_questions", "create_follow_up_questions",
      "clear_form_state">>

\* the calls of the try block of the Save Case handler, in program order
HandlerCalls ==
    <<"create_case", "save_audio_response", "delete_draft_case",
      "generate_follow_up_questions", "create_follow_up_questions",
      "clear_form_state">>

\* the place of call c in the sequence calls, 0 when it is not in it
CallIndex(calls, c) ==
    IF \E i \in 1..Len(calls) : calls[i] = c
    THEN CHOOSE i \in 1..Len(calls) : calls[i] = c
    ELSE 0

\* the calls the handler has made when control leaves the try block in or
\* after the call last; skipped are the calls whose condition was false
CallsThrough(last, skipped) ==
    SelectSeq(SubSeq(HandlerCalls, 1, CallIndex(HandlerCalls, last)),
              LAMBDA c : c \notin skipped)

\* the Save Case handler on the session s and draft table dtbl the script
\* reached the button with.  fail names the store call that raises in this
\* run, gen is what the generation service does.
Submit(s, dtbl, ctbl, qtbl, atbl, fail, gen) ==
    LET errors == validate(s.age, s.gender, s.race, s.state)
        base == [ss |-> s, drafts |-> dtbl, cases |-> ctbl, questions |-> qtbl,
                 audio_responses |-> atbl, errors |-> errors,
                 raised |-> Null, case_id |-> Null, generated |-> "not_called",
                 calls |-> 0, has_key |-> FALSE, steps |-> <<>>]
        c == create_case(ctbl, s.kind, s.user,
                         [age |-> s.age, gender |-> s.gender,
                          race |-> s.race, state |-> s.state],
                         s.answers, fail # "create_case")
        has_audio == Truthy(s.audio[PageQ])
        written == [base EXCEPT !.cases = c.tbl, !.case_id = c.case_id]
        with_audio == [written EXCEPT !.audio_responses =
                          IF has_audio THEN Append(@, AudioRow(c.case_id, PageQ)) ELSE @]
        undrafted == [with_audio EXCEPT !.drafts =
                          delete_draft_case(dtbl, get_draft_case(dtbl, s.user, s.kind))]
        g == generate_follow_up_questions(gen.has_key, gen.api_ok, gen.reply)
        w == create_follow_up_questions(qtbl, c.case_id, g.questions, s.user,
                 IF fail = "create_follow_up_questions" THEN 1 ELSE 0)
        cleared == [clear_form_state(s) EXCEPT !.draft_checked = FALSE]
        called == [undrafted EXCEPT !.calls = g.calls, !.has_key = gen.has_key]
        no_audio == IF has_audio THEN {} ELSE {"save_audio_response"}
    IN IF errors # <<>> THEN base
       ELSE IF ~CallBinds(s.kind)
            THEN [base EXCEPT !.raised = "TypeError",
                              !.steps = CallsThrough("create_case", {})]
       ELSE IF ~c.ok
            THEN [base EXCEPT !.raised = "create_case",
                              !.steps = CallsThrough("create_case", {})]
       ELSE IF has_audio /\ fail = "save_audio_response"
            THEN [written EXCEPT !.raised = "save_audio_response",
                                 !.steps = CallsThrough("save_audio_response", {})]
       ELSE IF fail = "delete_draft_case"
            THEN [with_audio EXCEPT !.raised = "delete_draft_case",
                                    !.steps = CallsThrough("delete_draft_case", no_audio)]
       ELSE IF g.success /\ g.questions # <<>>
            THEN IF ~w.ok
                 THEN [called EXCEPT !.raised = "create_follow_up_questions",
                                     !.generated = "ok",
                                     !.steps = CallsThrough("create_follow_up_questions",
                                                            no_audio)]
                 ELSE [called EXCEPT
                          !.questions = w.tbl,
                          !.generated = "ok",
                          !.ss = [cleared EXCEPT !.last_saved_case_id = c.case_id],
                          !.steps = CallsThrough("clear_form_state", no_audio)]
       ELSE [GenerationFailed(called, cleared) EXCEPT
                !.steps = CallsThrough("clear_form_state",
                              no_audio \cup {"create_follow_up_questions"})]

Run(op, errors, raised, case_id, auto_saved) ==
    [op |-> op, errors |-> errors, raised |-> raised, case_id |-> case_id,
     auto_saved |-> auto_saved]

(***************************************************************************)
(* Specification SpecDraft: sequential calls of the draft store by any     *)
(* user name and form kind (one call runs to completion before the next).  *)
(***************************************************************************)
MaxSaves == 2

\* arguments of save_draft_case: demographics, answers, audio_flags
P_full == [age |-> 0, gender |-> "Female", race |-> "Asian", state |-> "Ohio",
           answers |-> ("q1" :> "a"), audio |-> ("q1" :> TRUE)]
P_part == [age |-> NoneInt, gender |-> Null, race |-> Null, state |-> Null,
           answers |-> ("q2" :> "b"), audio |-> NoneDict]
P_none == [age |-> NoneInt, gender |-> Null, race |-> Null, state |-> Null,
           answers |-> NoneDict, audio |-> NoneDict]

DraftPayloads == {P_full, P_part, P_none}

NoSave == [none |-> TRUE]

Slots == OwnerKeys(DraftUsers) \X DraftKinds

InitCaseStore ==
    /\ cases = <<>>
    /\ fin = <<>>
    /\ tabs = <<>>

InitLedgerStore ==
    /\ questions = <<>>
    /\ batches = <<>>

NoSession == [none |-> TRUE]
NoRun == [none |-> TRUE]
NoService == [none |-> TRUE]

\* no browser session is open
InitPageStore ==
    /\ ss = NoSession
    /\ now = 0
    /\ audio_responses = <<>>
    /\ last_run = NoRun
    /\ service = NoService

InitDraftStore ==
    /\ drafts = EmptyBag
    /\ last_saved = [s \in Slots |-> NoSave]
    /\ n_saves = [s \in Slots |-> 0]

InitDraft ==
    /\ InitDraftStore
    /\ InitCaseStore
    /\ InitLedgerStore
    /\ InitPageStore

DbSaveDraft(u, k, p) ==
    /\ n_saves[<<lower(u), k>>] < MaxSaves
    /\ \E existing \in FirstDraft(drafts, u, k) :
          drafts' = save_draft_case(drafts, existing, u, k, p)
    /\ last_saved' = [last_saved EXCEPT ![<<lower(u), k>>] = p]
    /\ n_saves' = [n_saves EXCEPT ![<<lower(u), k>>] = @ + 1]
    /\ UNCHANGED <<caseVars, ledgerVars, pageVars>>

DbDeleteDraft(u, k) ==
    /\ \E existing \in FirstDraft(drafts, u, k) :
          drafts' = delete_draft_case(drafts, existing)
    /\ last_saved' = [last_saved EXCEPT ![<<lower(u), k>>] = NoSave]
    /\ n_saves' = [n_saves EXCEPT ![<<lower(u), k>>] = 0]
    /\ UNCHANGED <<caseVars, ledgerVars, pageVars>>

NextDraft ==
    \/ \E u \in DraftUsers, k \in DraftKinds, p \in DraftPayloads : DbSaveDraft(u, k, p)
    \/ \E u \in DraftUsers, k \in DraftKinds : DbDeleteDraft(u, k)

SpecDraft == InitDraft /\ [][NextDraft]_vars

\* C1: for any (owner, form_kind), after N >= 1 sequential save_draft calls
\* with no delete after the last one, exactly one draft row exists for the
\* pair and get_draft returns the demographics, the answers mapping and the
\* audio flags of the N-th call only (the stored answers have exactly the
\* keys of the N-th call, an absent mapping being stored as the empty one).
C1_SingleSlotLastWrite ==
    \A u \in DraftUsers, k \in DraftKinds :
        n_saves[<<lower(u), k>>] >= 1 =>
            LET p == last_saved[<<lower(u), k>>]
                d == get_draft_case(drafts, u, k)
                keys(m) == IF m = NoneDict THEN {} ELSE DOMAIN m
            IN /\ DraftCount(drafts, u, k) = 1
               /\ d # NoDraft
               /\ d.intake_version = k
               /\ d.age_at_snf_stay = p.age
               /\ d.gender = p.gender
               /\ d.race = p.race
               /\ d.state = p.state
               /\ DOMAIN d.answers_json = keys(p.answers)
               /\ \A q \in keys(p.answers) : d.answers_json[q] = p.answers[q]
               /\ DOMAIN d.audio_json = keys(p.audio)
               /\ \A q \in keys(p.audio) : d.audio_json[q] = p.audio[q]

\* a second save for the pair, made under the other spelling of the owner
\* name, replaced a draft with other keys
C1_Witness ==
    /\ n_saves[<<JD_lower, "abbrev">>] = 2
    /\ last_saved[<<JD_lower, "abbrev">>] = P_part
    /\ DraftCount(drafts, JD_lower, "abbrev") = 1
    /\ get_draft_case(drafts, JD_lower, "abbrev").user_name = JD_upper
    /\ DraftCount(drafts, K_user, "abbrev") = 1

(***************************************************************************)
(* Specification SpecCase: sequential finalizations (create_case calls     *)
(* that run to completion one after the other) by several user names.      *)
(***************************************************************************)
MaxCases == 3

CaseUsers == {JD_upper, JD_lower, JD_under, JD_tab, K_user}
FormKinds == {"abbrev", "abbrev_gen", "full"}

D_valid == [age |-> 0, gender |-> "Female", race |-> "Asian", state |-> "Ohio"]
A_one == ("q1" :> "txt")

InitCase ==
    /\ InitDraftStore
    /\ InitCaseStore
    /\ InitLedgerStore
    /\ InitPageStore

\* one finalization, start to end
Finalize(u, k, db_ok) ==
    /\ Len(fin) < MaxCases
    /\ LET r == create_case(cases, k, u, D_valid, A_one, db_ok)
       IN /\ cases' = r.tbl
          /\ fin' = Append(fin, [user_name |-> u, ok |-> r.ok, case_id |-> r.case_id])
    /\ UNCHANGED <<tabs, draftVars, ledgerVars, pageVars>>

NextCase == \E u \in CaseUsers, k \in FormKinds, db_ok \in BOOLEAN : Finalize(u, k, db_ok)

SpecCase == InitCase /\ [][NextCase]_vars

\* the successful finalizations, in order
RECURSIVE Successful(_)
Successful(log) ==
    IF log = <<>> THEN <<>>
    ELSE LET rest == Successful(SubSeq(log, 1, Len(log) - 1))
             e == log[Len(log)]
         IN IF e.ok THEN Append(rest, e) ELSE rest

\* the rank of the i-th successful finalization among those of its owner
RankOf(okLog, i) ==
    Cardinality({j \in 1..i : lower(okLog[j].user_name) = lower(okLog[i].user_name)})

\* normalize as the specification words it: lowercase, every whitespace
\* character replaced by an underscore
NormalizeWhitespace(user_name) ==
    replace(replace(lower(user_name), " ", "_"), "\t", "_")

\* normalize with only the space character replaced
NormalizeSpaces(user_name) == replace(lower(user_name), " ", "_")

\* C6 as stated: the k-th successful finalization of an owner (matched
\* case-insensitively) receives normalize(owner) + "_" + k, normalize
\* replacing whitespace with underscores.
C6_Original ==
    LET okLog == Successful(fin)
    IN \A i \in 1..Len(okLog) :
          okLog[i].case_id =
              NormalizeWhitespace(okLog[i].user_name) \o <<"_">> \o str(RankOf(okLog, i))

\* C6 amended: the k-th successful sequential finalization of an owner
\* (matched case-insensitively, across all form kinds) receives
\* normalize(owner) + "_" + k where normalize lowercases and replaces each
\* space character (no other whitespace) with an underscore; the stored rows
\* of an owner carry the numbers 1, 2, 3, ... in creation order.
C6_SequentialNumbering ==
    LET okLog == Successful(fin)
    IN /\ Len(cases) = Len(okLog)
       /\ \A i \in 1..Len(okLog) :
             /\ okLog[i].case_id =
                   NormalizeSpaces(okLog[i].user_name) \o <<"_">> \o str(RankOf(okLog, i))
             /\ cases[i].case_id = okLog[i].case_id
             /\ cases[i].user_name = okLog[i].user_name

\* three finalizations of one owner under both spellings and two form kinds
C6_Witness ==
    /\ Len(cases) = 3
    /\ cases[1].user_name = JD_upper /\ cases[1].intake_version = "abbrev"
    /\ cases[2].user_name = JD_lower /\ cases[2].intake_version = "full"
    /\ cases[3].user_name = JD_upper
    /\ cases[3].case_id = <<"j", "_", "d", "_", "3">>

(***************************************************************************)
(* Specification SpecRace: two browser tabs run create_case concurrently.  *)
(* create_case touches the store twice: the count query of                 *)
(* get_next_case_number, then the commit of the new row.                   *)
(***************************************************************************)
TabIds == {1, 2}
RaceUsers == {JD_upper, JD_lower, JD_under}
RaceKinds == {"abbrev", "abbrev_gen"}

TabIdle == [pc |-> "idle"]

InitRace ==
    /\ InitDraftStore
    /\ InitLedgerStore
    /\ InitPageStore
    /\ cases = <<>>
    /\ fin = <<>>
    /\ tabs = [t \in TabIds |-> TabIdle]

InFlight == Cardinality({t \in TabIds : tabs[t].pc = "read"})

\* create_case up to the return of get_next_case_number
ReadCount(t, u, k) ==
    /\ tabs[t].pc = "idle"
    /\ Len(fin) + InFlight < MaxCases
    /\ tabs' = [tabs EXCEPT ![t] =
                   [pc |-> "read", user_name |-> u, kind |-> k,
                    case_number |-> get_next_case_number(cases, u),
                    fid |-> Len(fin) + InFlight + 1]]
    /\ UNCHANGED <<cases, fin, draftVars, ledgerVars, pageVars>>

\* the other tab, when it has read the same count for the same owner and has
\* not yet committed (0 when there is none)
RacingPeer(t) ==
    LET o == CHOOSE x \in TabIds : x # t
    IN IF /\ tabs[o].pc = "read"
          /\ lower(tabs[o].user_name) = lower(tabs[t].user_name)
          /\ tabs[o].case_number = tabs[t].case_number
       THEN tabs[o].fid ELSE 0

\* create_case from session.add to the return or the re-raised exception
Commit(t, db_ok) ==
    /\ tabs[t].pc = "read"
    /\ LET c == tabs[t]
           r == create_case_from(cases, c.case_number, c.kind, c.user_name,
                                 D_valid, A_one, db_ok)
       IN /\ cases' = r.tbl
          /\ fin' = Append(fin, [fid |-> c.fid, user_name |-> c.user_name,
                                 ok |-> r.ok, case_id |-> r.case_id,
                                 raced_with |-> RacingPeer(t),
                                 rows_before |-> Len(cases),
                                 rows_after |-> Len(r.tbl)])
    /\ tabs' = [tabs EXCEPT ![t] = TabIdle]
    /\ UNCHANGED <<draftVars, ledgerVars, pageVars>>

NextRace ==
    \/ \E t \in TabIds, u \in RaceUsers, k \in RaceKinds : ReadCount(t, u, k)
    \/ \E t \in TabIds, db_ok \in BOOLEAN : Commit(t, db_ok)

SpecRace == InitRace /\ [][NextRace]_vars

RowsWithId(tbl, case_id) == Cardinality({i \in 1..Len(tbl) : tbl[i].case_id = case_id})

\* C7: when two finalizations of one owner interleave so that both read the
\* same case count before either inserts, they derive the same case_id; at
\* most one Case row with that id is ever committed, the finalization that
\* commits second never succeeds once the first has, and a finalization that
\* failed left the cases table exactly as it found it.
C7_RaceCollision ==
    /\ \A i \in 1..Len(fin) :
          /\ ~fin[i].ok => fin[i].rows_after = fin[i].rows_before
          /\ fin[i].ok => fin[i].rows_after = fin[i].rows_before + 1
          /\ RowsWithId(cases, fin[i].case_id) <= 1
    /\ \A i, j \in 1..Len(fin) :
          (i < j /\ fin[i].raced_with = fin[j].fid) =>
              /\ fin[i].case_id = fin[j].case_id
              /\ ~(fin[i].ok /\ fin[j].ok)
              /\ fin[i].ok => ~fin[j].ok
    /\ \A t \in TabIds :
          (tabs[t].pc = "read" /\ RacingPeer(t) # 0) =>
              LET o == CHOOSE x \in TabIds : x # t
              IN generate_case_id(tabs[t].user_name, tabs[t].case_number)
                   = generate_case_id(tabs[o].user_name, tabs[o].case_number)

\* both tabs read count 0 under the two spellings of the owner name; the
\* first commit stored the row and the second was rejected
C7_Witness ==
    /\ Len(fin) = 2
    /\ fin[1].raced_with = fin[2].fid
    /\ fin[1].user_name # fin[2].user_name
    /\ fin[1].ok /\ ~fin[2].ok
    /\ Len(cases) = 1

(***************************************************************************)
(* Specification SpecLedger: cases are finalized one after the other and   *)
(* each reply of the generation service is parsed and batch-written.       *)
(***************************************************************************)
MaxLedgerCases == 2

L_hdrA == <<"A", ")", " ", "Reasoning", " ", "Trace">>
L_hdrA_low == <<"a", ")", "reasoning", "trace">>
L_hdrB == <<"B", ")", " ", "Discharge", " ", "Timing", " ", "Dynamics">>
L_hdrC == <<"C", ")", " ", "SNF", " ", "Patient", " ", "State", " ", "Transitions">>
L_q1 == <<"1", ".", " ", "Why", "?">>
L_q2 == <<"2", ")", "When", "?">>
L_q1_other == <<" ", "1", ".", " ", "What", "?">>
L_cont == <<"exactly", "?">>
L_blank == <<>>
L_prose == <<"Sorry", " ", "no", " ", "questions">>

R_sections == <<L_hdrA, L_q1, L_q2, L_blank, L_hdrB, L_q1, L_blank, L_hdrC, L_q1>>
R_renumbered == <<L_hdrA, L_q1, L_q1_other>>
R_header_twice == <<L_hdrA, L_q1, L_hdrA_low, L_q1>>
R_continued == <<L_hdrB, L_q2, L_cont>>
R_no_header == <<L_q1, L_hdrC, L_q2>>
R_prose == <<L_prose>>

LedgerReplies == {R_sections, R_renumbered, R_header_twice, R_continued, R_no_header, R_prose}
LedgerUsers == {JD_upper, K_user}

InitLedger ==
    /\ InitDraftStore
    /\ InitCaseStore
    /\ InitLedgerStore
    /\ InitPageStore

\* create_case, generate_follow_up_questions and create_follow_up_questions
\* as the Save Case handler chains them
GenerateFor(u, k, reply, fail_at, maxCases, logged) ==
    /\ Len(cases) < maxCases
    /\ LET c == create_case(cases, k, u, D_valid, A_one, TRUE)
           g == generate_follow_up_questions(TRUE, TRUE, reply)
           w == create_follow_up_questions(questions, c.case_id, g.questions, u, fail_at)
       IN /\ c.ok
          /\ cases' = c.tbl
          /\ IF g.success /\ g.questions # <<>>
             THEN /\ questions' = w.tbl
                  /\ batches' = IF ~logged THEN batches ELSE Append(batches,
                        [case_id |-> c.case_id, n |-> Len(g.questions),
                         fail_at |-> fail_at, ok |-> w.ok,
                         listed_before |-> get_follow_up_questions_for_case(questions, c.case_id),
                         listed_after |-> get_follow_up_questions_for_case(w.tbl, c.case_id),
                         rows_before |-> questions, rows_after |-> w.tbl])
             ELSE /\ fail_at = 0
                  /\ UNCHANGED <<questions, batches>>
    /\ UNCHANGED <<fin, tabs, draftVars, pageVars>>

LedgerGenerate(u, reply, fail_at) == GenerateFor(u, "abbrev", reply, fail_at, MaxLedgerCases, TRUE)

\* where a batch write can raise: at the flush of row i, at the commit
\* (n + 1), or nowhere (0)
FailPoints(reply) == 0..(Len(parse_follow_up_response(reply)) + 1)

NextLedger ==
    \E u \in LedgerUsers, reply \in LedgerReplies :
        \E fail_at \in FailPoints(reply) : LedgerGenerate(u, reply, fail_at)

SpecLedger == InitLedger /\ [][NextLedger]_vars

\* C8: no two stored question rows of one case have the same section and
\* question_number.
C8_LedgerKeyUnique ==
    \A i, j \in 1..Len(questions) :
        (i # j /\ questions[i].case_id = questions[j].case_id) =>
            <<questions[i].section, questions[i].question_number>>
                # <<questions[j].section, questions[j].question_number>>

\* C9: a create_follow_up_questions call whose i-th insert fails, for any
\* 1 <= i <= n, commits no row of the batch: the table is as before the call
\* and the questions listed for the case are those listed before, none for
\* the new case.
C9_BatchAtomic ==
    \A b \in 1..Len(batches) :
        (batches[b].fail_at >= 1 /\ batches[b].fail_at <= batches[b].n) =>
            /\ ~batches[b].ok
            /\ batches[b].rows_after = batches[b].rows_before
            /\ batches[b].listed_after = batches[b].listed_before
            /\ batches[b].listed_after = <<>>

\* a batch of four questions failed on its third insert after an earlier
\* batch had been committed
C9_Witness ==
    /\ Len(batches) = 2
    /\ batches[1].ok
    /\ batches[2].n = 4 /\ batches[2].fail_at = 3
    /\ Len(questions) = batches[1].n

(***************************************************************************)
(* Specification SpecAnswer: cases receive their follow-up questions and   *)
(* the questions are answered, skipped with N/A, or left alone.            *)
(***************************************************************************)
AnswerReplies == {R_renumbered, R_continued, R_prose}
AnswerUsers == {JD_upper, JD_lower, K_user}
AnswerTexts == {"N/A", "ans"}

InitAnswer ==
    /\ InitDraftStore
    /\ InitCaseStore
    /\ InitLedgerStore
    /\ InitPageStore

AnswerGenerate(u, reply) == GenerateFor(u, "abbrev", reply, 0, MaxLedgerCases, FALSE)

\* update_follow_up_answer on a question id that may not exist
Answer(question_id, answer_text) ==
    /\ LET r == update_follow_up_answer(questions, question_id, answer_text, now)
       IN /\ questions' = r.tbl
          /\ last_run' = [op |-> "answer", question_id |-> question_id,
                          answer_text |-> answer_text, ok |-> r.ok]
    /\ UNCHANGED <<batches, caseVars, draftVars, ss, now, audio_responses, service>>

NextAnswer ==
    \/ \E u \in AnswerUsers, reply \in AnswerReplies : AnswerGenerate(u, reply)
    \/ \E question_id \in 1..(Len(questions) + 1), answer_text \in AnswerTexts :
           Answer(question_id, answer_text)

SpecAnswer == InitAnswer /\ [][NextAnswer]_vars

PendingIds(u) ==
    LET s == get_cases_with_pending_follow_ups(cases, questions, u)
    IN {s[i].case_id : i \in 1..Len(s)}

ValidateAges == {NoneInt, 0, 70}
ValidateGenders == {"", "Female", "Male"}
ValidateRaces == {"", "Asian", "White"}
ValidateStates == {"", "Ohio", "Utah"}

PageUser == JD_upper

InitValidate ==
    /\ InitDraftStore
    /\ InitCaseStore
    /\ InitLedgerStore
    /\ now = 0
    /\ audio_responses = <<>>
    /\ last_run = NoRun
    /\ service = NoService
    /\ \E age \in ValidateAges, gender \in ValidateGenders,
          race \in ValidateRaces, state \in ValidateStates :
           ss = [FreshSession(PageUser, "abbrev", 0) EXCEPT
                    !.draft_checked = TRUE,
                    !.age = age, !.gender = gender, !.race = race, !.state = state]

\* the validation block of a Save Case click
Validate ==
    /\ last_run = NoRun
    /\ last_run' = Run("validate", validate(ss.age, ss.gender, ss.race, ss.state),
                       Null, Null, FALSE)
    /\ UNCHANGED <<ss, now, audio_responses, service, draftVars, caseVars, ledgerVars>>

NextValidate == Validate

SpecValidate == InitValidate /\ [][NextValidate]_vars

ErrorOf(field) ==
    CASE field = "age" -> "Age at SNF Stay is required"
      [] field = "gender" -> "Gender is required"
      [] field = "race" -> "Race is required"
      [] field = "state" -> "SNF State is required"

\* the required fields that are missing or empty in the form
MissingFields(s) ==
    {f \in {"age", "gender", "race", "state"} :
        \/ f = "age" /\ s.age = NoneInt
        \/ f = "gender" /\ s.gender = ""
        \/ f = "race" /\ s.race = ""
        \/ f = "state" /\ s.state = ""}

\* C4: the validation reports one error for every required field that is
\* missing or empty and no other error, whichever subset is missing; with
\* none of the four present it reports all four.
C4_ValidationComplete ==
    last_run # NoRun =>
        /\ {last_run.errors[i] : i \in 1..Len(last_run.errors)}
              = {ErrorOf(f) : f \in MissingFields(ss)}
        /\ Len(last_run.errors) = Cardinality(MissingFields(ss))

\* a form with none of the four present was validated and four errors came
\* back
C4_Witness ==
    /\ last_run # NoRun
    /\ MissingFields(ss) = {"age", "gender", "race", "state"}
    /\ Len(last_run.errors) = 4

(***************************************************************************)
(* Specification SpecPage: one user works on one intake page in one        *)
(* browser session, fills the required fields from top to bottom, types or *)
(* records the answer, saves drafts and submits.                           *)
(***************************************************************************)
MaxPageCases == 1
MaxTicks == 2

TickSeconds == AUTO_SAVE_INTERVAL_SECONDS \div 2

PageEdits ==
    {[field |-> "age", value |-> 0],
     [field |-> "gender", value |-> "Female"],
     [field |-> "race", value |-> "Asian"],
     [field |-> "state", value |-> "Ohio"],
     [field |-> "answer", value |-> "txt"],
     [field |-> "audio", value |-> AudioBytes]}

\* the user fills the required fields in page order and answers once
EditEnabled(s, e) ==
    CASE e.field = "age" -> s.age = NoneInt
      [] e.field = "gender" -> s.age # NoneInt /\ s.gender = ""
      [] e.field = "race" -> s.gender # "" /\ s.race = ""
      [] e.field = "state" -> s.race # "" /\ s.state = ""
      [] e.field = "answer" -> s.answers[PageQ] = "" /\ s.audio_widget = Null
      [] e.field = "audio" -> s.answers[PageQ] = "" /\ s.audio_widget = Null

\* the store call that raises during a submission, if any
PageFails ==
    {"none", "create_case", "save_audio_response", "delete_draft_case",
     "create_follow_up_questions"}

\* what the generation service does: no API key, a failed call, a reply
PageGens ==
    {[has_key |-> FALSE, api_ok |-> TRUE, reply |-> R_prose],
     [has_key |-> TRUE, api_ok |-> FALSE, reply |-> R_prose],
     [has_key |-> TRUE, api_ok |-> TRUE, reply |-> R_prose],
     [has_key |-> TRUE, api_ok |-> TRUE, reply |-> R_continued]}

\* one submission: at most one store call raises, and what the generation
\* service does matters only when none of the earlier calls raised
PageOutcomes ==
    {o \in [fail : PageFails, gen : PageGens] :
        o.fail # "none" => o.gen = [has_key |-> TRUE, api_ok |-> TRUE, reply |-> R_continued]}

\* the first run of the page in a new browser session
FirstRun(kind, tbl, t) ==
    ScriptToButtons(FreshSession(PageUser, kind, t), tbl, t, NoEdit)

InitPage ==
    /\ InitDraftStore
    /\ InitCaseStore
    /\ InitLedgerStore
    /\ now = 0
    /\ audio_responses = <<>>
    /\ service = NoService
    /\ \E kind \in FormKinds : ss = FirstRun(kind, drafts, 0).ss
    /\ last_run = Run("open", <<>>, Null, Null, FALSE)

pageFrame == <<last_saved, n_saves, fin, tabs, batches, now, service>>

\* the user changes one widget
Edit(e) ==
    /\ EditEnabled(ss, e)
    /\ LET r == ScriptToButtons(ss, drafts, now, e)
       IN /\ ss' = r.ss
          /\ drafts' = r.drafts
          /\ last_run' = Run("edit", <<>>, Null, Null, r.saved)
    /\ UNCHANGED <<cases, questions, audio_responses, pageFrame>>

\* the "Save Draft" button
ClickSaveDraft ==
    /\ LET r == ScriptToButtons(ss, drafts, now, NoEdit)
       IN /\ ss' = mark_auto_saved(r.ss, now)
          /\ drafts' = save_current_draft(r.ss, r.drafts)
          /\ last_run' = Run("save_draft", <<>>, Null, Null, r.saved)
    /\ UNCHANGED <<cases, questions, audio_responses, pageFrame>>

\* the "Save Case" button
ClickSaveCase(fail, gen) ==
    /\ Len(cases) < MaxPageCases
    /\ LET r == ScriptToButtons(ss, drafts, now, NoEdit)
           h == Submit(r.ss, r.drafts, cases, questions, audio_responses, fail, gen)
       IN /\ ss' = h.ss
          /\ drafts' = h.drafts
          /\ cases' = h.cases
          /\ questions' = h.questions
          /\ audio_responses' = h.audio_responses
          /\ last_run' = Run("save_case", h.errors, h.raised, h.case_id, r.saved)
                             @@ [generated |-> h.generated, calls |-> h.calls,
                                 has_key |-> h.has_key, steps |-> h.steps]
    /\ UNCHANGED pageFrame

\* time passes while the page is idle
Tick ==
    /\ now + TickSeconds <= MaxTicks * TickSeconds
    /\ now' = now + TickSeconds
    /\ UNCHANGED <<ss, audio_responses, last_run, service, draftVars, caseVars, ledgerVars>>

NextPage ==
    \/ \E e \in PageEdits : Edit(e)
    \/ ClickSaveDraft
    \/ \E o \in PageOutcomes : ClickSaveCase(o.fail, o.gen)
    \/ Tick

SpecPage == InitPage /\ [][NextPage]_vars

\* the step is a run of the page script in which Save Case was clicked
SaveCaseRun == now' = now /\ last_run'.op = "save_case"

\* the form as the page renders it
FormFields(s) ==
    LET r == RenderWidgets(s)
    IN <<r.age, r.gender, r.race, r.state, r.answers, r.audio>>

\* C2: when a submission that wrote its Case completes, the draft of the
\* (owner, form kind) no longer exists.
C2_FinalizeClearsDraft ==
    (last_run.op = "save_case" /\ last_run.case_id # Null) =>
        ~has_draft_case(drafts, ss.user, ss.kind)

\* C3: for each form kind, a Save Case click with age, gender, race and
\* region present, on a store that accepts the insert, creates exactly one
\* Case row carrying the form kind, the owner and the submitted answers.
C3_OneCasePerSubmission ==
    [][(SaveCaseRun /\ last_run'.errors = <<>> /\ last_run'.raised # "create_case") =>
          /\ Len(cases') = Len(cases) + 1
          /\ cases'[Len(cases')].intake_version = ss.kind
          /\ cases'[Len(cases')].user_name = ss.user
          /\ cases'[Len(cases')].answers_json = RenderWidgets(ss).answers]_vars

StripAnswer(v) == IF v = "  " THEN "" ELSE v

\* f"follow_on_{intake_version}"
FollowOnDraftKey(intake_version) ==
    CASE intake_version = "abbrev" -> "follow_on_abbrev"
      [] intake_version = "abbrev_gen" -> "follow_on_abbrev_gen"
      [] intake_version = "full" -> "follow_on_full"

\* draft_type.replace("follow_on_", "")
IntakeVersionOf(draft_type) ==
    CASE draft_type = "follow_on_abbrev" -> "abbrev"
      [] draft_type = "follow_on_abbrev_gen" -> "abbrev_gen"
      [] draft_type = "follow_on_full" -> "full"

FollowOnDraftTypes == <<"follow_on_abbrev", "follow_on_abbrev_gen", "follow_on_full">>

\* the session state keys of the page after their initialisation
FreshFollowOn(user_name, t) ==
    [user |-> user_name,
     selected_followup_case |-> Null,
     case_selector |-> Null,
     followup_answers |-> <<>>,
     saved_questions |-> {},
     followon_draft_checked |-> FALSE,
     followon_draft_loaded |-> FALSE,
     followon_case_intake_version |-> Null,
     followon_pending_draft |-> NoDraft,
     followon_pending_draft_type |-> Null,
     last_saved_case_id |-> Null,
     last_auto_save_time |-> t]

\* d.get(q_id, "")
GetAnswer(d, q_id) == IF q_id \in DOMAIN d THEN d[q_id] ELSE ""

\* followup_answers.get(case_id, {})
AnswersOf(s, case_id) ==
    IF case_id \in DOMAIN s.followup_answers THEN s.followup_answers[case_id] ELSE <<>>

\* any(v and str(v).strip() for v in d.values())
HasFollowOnData(d) == \E q \in DOMAIN d : StripAnswer(d[q]) # ""

\* the dict {"_case_id": case_id, **answers}
FollowOnPayload(s) ==
    [age |-> NoneInt, gender |-> Null, race |-> Null, state |-> Null,
     answers |-> [case_id_marker |-> s.selected_followup_case,
                  answers |-> AnswersOf(s, s.selected_followup_case)],
     audio |-> <<>>]

\* save_followon_draft: [ok, drafts]
save_followon_draft(s, dtbl) ==
    LET case_id == s.selected_followup_case
        intake_version == s.followon_case_intake_version
        draft_key == FollowOnDraftKey(intake_version)
    IN IF case_id = Null \/ intake_version = Null
       THEN [ok |-> FALSE, drafts |-> dtbl]
       ELSE [ok |-> TRUE,
             drafts |-> save_draft_case(dtbl, get_draft_case(dtbl, s.user, draft_key),
                                        s.user, draft_key, FollowOnPayload(s))]

\* the ids of the cases listed for the user
ValidCaseIds(cases_with_followups) ==
    {cases_with_followups[i].case_id : i \in 1..Len(cases_with_followups)}

\* load_followon_draft: the session after the call (unchanged when the
\* draft names no case or a case that is not listed)
load_followon_draft(s, draft, cases_with_followups) ==
    LET answers_data == draft.answers_json
        has_marker == "case_id_marker" \in DOMAIN answers_data
        draft_case_id == IF has_marker THEN answers_data.case_id_marker ELSE Null
    IN IF draft_case_id = Null \/ draft_case_id \notin ValidCaseIds(cases_with_followups)
       THEN [loaded |-> FALSE, ss |-> s]
       ELSE [loaded |-> TRUE,
             ss |-> [s EXCEPT
                 !.followup_answers = (draft_case_id :> answers_data.answers) @@ @,
                 !.selected_followup_case = draft_case_id,
                 !.followon_draft_loaded = TRUE]]

\* save_single_answer with no audio recorded: [ss, questions]
save_single_answer(s, qtbl, q_id, answer_text, t) ==
    [ss |-> [s EXCEPT !.saved_questions = @ \cup {q_id}],
     questions |-> update_follow_up_answer(qtbl, q_id, answer_text, t).tbl]

\* "Check for existing follow-on drafts on first load"
FollowOnDraftCheck(s, dtbl) ==
    LET found == {i \in 1..Len(FollowOnDraftTypes) :
                     get_draft_case(dtbl, s.user, FollowOnDraftTypes[i]) # NoDraft}
        first == CHOOSE i \in found : \A j \in found : i <= j
    IN IF s.followon_draft_checked THEN s
       ELSE IF found = {} THEN [s EXCEPT !.followon_draft_checked = TRUE]
       ELSE [s EXCEPT
                !.followon_pending_draft =
                    get_draft_case(dtbl, s.user, FollowOnDraftTypes[first]),
                !.followon_pending_draft_type = FollowOnDraftTypes[first],
                !.followon_draft_checked = TRUE]

NoClick == [button |-> "none", q |-> 0]

\* the loop over the questions read at the top of the run: the text area of
\* a question that is not N/A writes its value to followup_answers, then the
\* Save, N/A and Save Draft buttons of the question are handled.  A save that
\* succeeds ends the run with st.rerun().
RECURSIVE QuestionLoop(_, _, _, _)
QuestionLoop(acc, qs, click, t) ==
    IF qs = <<>> \/ acc.rerun THEN acc
    ELSE LET question == Head(qs)
             q_id == question.id
             sel == acc.ss.selected_followup_case
             text_answer == GetAnswer(acc.ss.followup_answers[sel], q_id)
             s1 == [acc.ss EXCEPT !.followup_answers[sel] = (q_id :> text_answer) @@ @]
             shown == [acc EXCEPT !.ss = s1]
             answer_text == StripAnswer(text_answer)
             saved == save_single_answer(s1, acc.questions, q_id, answer_text, t)
             na == save_single_answer(s1, acc.questions, q_id, "N/A", t)
             d == save_followon_draft(s1, acc.drafts)
             next ==
                 IF click.q # q_id THEN shown
                 ELSE IF click.button = "save"
                 THEN IF answer_text # ""
                      THEN [shown EXCEPT !.ss = saved.ss, !.questions = saved.questions,
                                         !.rerun = TRUE, !.clicked = TRUE]
                      ELSE [shown EXCEPT !.clicked = TRUE]
                 ELSE IF click.button = "na"
                 THEN [shown EXCEPT !.ss = na.ss, !.questions = na.questions,
                                    !.rerun = TRUE, !.clicked = TRUE]
                 ELSE IF click.button = "save_draft"
                 THEN [shown EXCEPT !.drafts = d.drafts, !.clicked = TRUE,
                                    !.ss = IF d.ok THEN mark_auto_saved(s1, t) ELSE s1]
                 ELSE shown
         IN IF question.answer_text = "N/A"
            THEN QuestionLoop(acc, Tail(qs), click, t)
            ELSE QuestionLoop(next, Tail(qs), click, t)

\* the Save All loop without the "if not answer_text" branch: an emptied
\* text area is saved like any changed answer
RECURSIVE SaveAllLoop_saves_empty(_, _, _)
SaveAllLoop_saves_empty(acc, qs, t) ==
    IF qs = <<>> THEN acc
    ELSE LET question == Head(qs)
             sel == acc.ss.selected_followup_case
             answer_text == StripAnswer(GetAnswer(acc.ss.followup_answers[sel], question.id))
             w == save_single_answer(acc.ss, acc.questions, question.id, answer_text, t)
         IN IF question.answer_text = answer_text
               \/ (answer_text = "" /\ question.answer_text = Null)
            THEN SaveAllLoop_saves_empty(acc, Tail(qs), t)
            ELSE SaveAllLoop_saves_empty([ss |-> w.ss, questions |-> w.questions,
                                          saved_count |-> acc.saved_count + 1],
                                         Tail(qs), t)

\* the loop of the "Save All Answers" handler: [ss, questions, saved_count]
RECURSIVE SaveAllLoop(_, _, _)
SaveAllLoop(acc, qs, t) ==
    IF qs = <<>> THEN acc
    ELSE LET question == Head(qs)
             sel == acc.ss.selected_followup_case
             answer_text == StripAnswer(GetAnswer(acc.ss.followup_answers[sel], question.id))
             w == save_single_answer(acc.ss, acc.questions, question.id, answer_text, t)
         IN IF answer_text = "" \/ question.answer_text = answer_text
            THEN SaveAllLoop(acc, Tail(qs), t)
            ELSE SaveAllLoop([ss |-> w.ss, questions |-> w.questions,
                              saved_count |-> acc.saved_count + 1], Tail(qs), t)

\* the "Save All Answers" handler on the questions read at the top of the run
SaveAll(acc, qs, t) ==
    LET r == SaveAllLoop([ss |-> acc.ss, questions |-> acc.questions, saved_count |-> 0],
                         qs, t)
        total_questions == Len(qs)
        total_answered ==
            Cardinality({i \in 1..Len(qs) : qs[i].answer_text # Null}) + r.saved_count
        intake_v == acc.ss.followon_case_intake_version
    IN [acc EXCEPT
           !.ss = r.ss,
           !.questions = r.questions,
           !.clicked = TRUE,
           !.drafts =
               IF r.saved_count > 0 /\ total_answered >= total_questions /\ intake_v # Null
               THEN delete_draft_case(@, get_draft_case(@, acc.ss.user, FollowOnDraftKey(intake_v)))
               ELSE @]

\* "Auto-save draft on every interaction to prevent data loss"
FollowOnAutoSave(acc, t) ==
    LET sel == acc.ss.selected_followup_case
    IN IF sel \in DOMAIN acc.ss.followup_answers
          /\ HasFollowOnData(acc.ss.followup_answers[sel])
       THEN [acc EXCEPT
                !.drafts = save_followon_draft(acc.ss, @).drafts,
                !.ss = IF should_auto_save(@, t) THEN mark_auto_saved(@, t) ELSE @]
       ELSE acc

\* get_case_by_id(case_id).intake_version
IntakeVersionOfCase(ctbl, case_id) ==
    LET found == {i \in 1..Len(ctbl) : ctbl[i].case_id = case_id}
    IN IF found = {} THEN Null ELSE ctbl[CHOOSE i \in found : TRUE].intake_version

\* the case selection: the redirect from an intake page, the case of a loaded
\* draft, and the select box, whose options are the listed cases
SelectCase(s, cases_with_followups) ==
    LET ids == ValidCaseIds(cases_with_followups)
        redirect_case_id == s.last_saved_case_id
        s1 == IF redirect_case_id # Null
              THEN IF redirect_case_id \in ids
                   THEN [s EXCEPT !.last_saved_case_id = Null,
                                  !.case_selector = redirect_case_id,
                                  !.selected_followup_case = redirect_case_id]
                   ELSE [s EXCEPT !.last_saved_case_id = Null]
              ELSE s
        s2 == IF s1.followon_draft_loaded /\ s1.selected_followup_case # Null
                 /\ s1.selected_followup_case \in ids
              THEN [s1 EXCEPT !.case_selector = s1.selected_followup_case]
              ELSE s1
    IN IF s2.case_selector # Null /\ s2.case_selector \notin ids
       THEN [s2 EXCEPT !.case_selector =
                IF s2.selected_followup_case # Null /\ s2.selected_followup_case \in ids
                THEN s2.selected_followup_case ELSE Null]
       ELSE s2

\* "Pre-populate with existing answers"
InitAnswers(s, qs) ==
    LET sel == s.selected_followup_case
    IN IF sel \in DOMAIN s.followup_answers THEN s
       ELSE [s EXCEPT !.followup_answers =
                (sel :> [q_id \in {qs[i].id : i \in 1..Len(qs)} |->
                            LET a == (CHOOSE i \in 1..Len(qs) : qs[i].id = q_id)
                            IN IF Truthy(qs[a].answer_text)
                               THEN qs[a].answer_text ELSE ""]) @@ @]

\* what a run that stops before the questions leaves
ScriptStop(s, dtbl, qtbl) ==
    [ss |-> s, drafts |-> dtbl, questions |-> qtbl, rerun |-> FALSE, clicked |-> FALSE]

\* the "Save Draft" handlers: the draft written, the time marked on success
SavedDraft(acc, d, t) ==
    [acc EXCEPT !.drafts = d.drafts, !.clicked = TRUE,
                !.ss = IF d.ok THEN mark_auto_saved(@, t) ELSE @]

\* the "Save Draft" button at the bottom of the page
BottomSaveDraft(acc, click, t) ==
    IF click.button = "save_draft_bottom"
    THEN SavedDraft(acc, save_followon_draft(acc.ss, acc.drafts), t)
    ELSE acc

\* the page below the questions: Save All Answers, Save Draft, the auto-save
ScriptAfterLoop(looped, qs, click, t) ==
    IF looped.rerun THEN looped
    ELSE FollowOnAutoSave(
             BottomSaveDraft(IF click.button = "save_all" THEN SaveAll(looped, qs, t) ELSE looped,
                             click, t),
             t)

\* the questions of the selected case
ScriptQuestions(s3, qs, dtbl, qtbl, click, t) ==
    IF qs = <<>> THEN ScriptStop(s3, dtbl, qtbl)
    ELSE ScriptAfterLoop(
             QuestionLoop([ss |-> InitAnswers(s3, qs), drafts |-> dtbl, questions |-> qtbl,
                           rerun |-> FALSE, clicked |-> FALSE],
                          qs, click, t),
             qs, click, t)

\* "Store selected case ID and intake version for draft saving"
WithSelected(s2, case_version) ==
    [s2 EXCEPT !.selected_followup_case = s2.case_selector,
               !.followon_case_intake_version =
                   IF case_version # Null THEN case_version ELSE @]

\* the page from the case selection on
ScriptSelected(s2, dtbl, qtbl, ctbl, click, t) ==
    IF s2.case_selector = Null THEN ScriptStop(s2, dtbl, qtbl)
    ELSE ScriptQuestions(WithSelected(s2, IntakeVersionOfCase(ctbl, s2.case_selector)),
                         get_follow_up_questions_for_case(qtbl, s2.case_selector),
                         dtbl, qtbl, click, t)

\* the "Resume Draft" handler of the banner
ResumeFollowOn(s1, l) ==
    [(IF l.loaded
      THEN [l.ss EXCEPT !.followon_case_intake_version =
                            IntakeVersionOf(s1.followon_pending_draft_type)]
      ELSE l.ss)
     EXCEPT !.followon_pending_draft = NoDraft]

\* the page from the banner on, s1 being the session after the draft check
ScriptChecked(s, s1, cases_with_followups, dtbl, qtbl, ctbl, click, t) ==
    IF cases_with_followups = <<>> THEN ScriptStop(s, dtbl, qtbl)
    ELSE IF s1.followon_pending_draft # NoDraft /\ ~s1.followon_draft_loaded
            /\ click.button = "resume"
    THEN [ss |-> ResumeFollowOn(s1, load_followon_draft(s1, s1.followon_pending_draft,
                                                        cases_with_followups)),
          drafts |-> dtbl, questions |-> qtbl, rerun |-> TRUE, clicked |-> TRUE]
    ELSE IF s1.followon_pending_draft # NoDraft /\ ~s1.followon_draft_loaded
            /\ click.button = "discard"
    THEN [ss |-> [s1 EXCEPT !.followon_pending_draft = NoDraft],
          drafts |-> delete_draft_case(dtbl, get_draft_case(dtbl, s1.user,
                                                           s1.followon_pending_draft_type)),
          questions |-> qtbl, rerun |-> TRUE, clicked |-> TRUE]
    ELSE ScriptSelected(SelectCase(s1, cases_with_followups), dtbl, qtbl, ctbl, click, t)

\* one run of the page script with the given button clicked (NoClick when
\* the run was triggered by something else): [ss, drafts, questions, rerun,
\* clicked], rerun telling that the run ended with st.rerun() and clicked
\* that the run rendered the button.
FollowOnScript(s, dtbl, qtbl, ctbl, click, t) ==
    ScriptChecked(s, FollowOnDraftCheck(s, dtbl),
                  get_cases_with_pending_follow_ups(ctbl, qtbl, s.user),
                  dtbl, qtbl, ctbl, click, t)

\* the run that st.rerun() starts, when the run r ended with it
RerunIf(r, ctbl, t) ==
    IF r.rerun
    THEN [FollowOnScript(r.ss, r.drafts, r.questions, ctbl, NoClick, t)
          EXCEPT !.clicked = r.clicked]
    ELSE r

\* a click and the rerun that st.rerun() starts
FollowOnRun(s, dtbl, qtbl, ctbl, click, t) ==
    RerunIf(FollowOnScript(s, dtbl, qtbl, ctbl, click, t), ctbl, t)

(***************************************************************************)
(* Specification SpecFollowOn: one user has one case with two follow-up    *)
(* questions and works on the follow-on page: selects the case, types,     *)
(* clicks the buttons of the page, and comes back in a new browser         *)
(* session.                                                                *)
(***************************************************************************)
R_two == <<L_hdrA, L_q1, L_q2>>

FollowOnTexts == {"", "ans", "  "}

FollowOnClicks ==
    {[button |-> b, q |-> 0] : b \in {"resume", "discard", "save_all", "save_draft_bottom"}}
    \cup {[button |-> b, q |-> q] : b \in {"save", "na", "save_draft"}, q \in 1..2}

InitFollowOn ==
    /\ InitDraftStore
    /\ fin = <<>>
    /\ tabs = <<>>
    /\ batches = <<>>
    /\ now = 0
    /\ audio_responses = <<>>
    /\ service = NoService
    /\ last_run = Run("open", <<>>, Null, Null, FALSE)
    /\ \E k \in FormKinds :
         LET c == create_case(<<>>, k, PageUser, D_valid, A_one, TRUE)
             g == generate_follow_up_questions(TRUE, TRUE, R_two)
             w == create_follow_up_questions(<<>>, c.case_id, g.questions, PageUser, 0)
         IN /\ cases = c.tbl
            /\ questions = w.tbl
            /\ ss = FollowOnRun(FreshFollowOn(PageUser, 0), drafts, w.tbl, c.tbl, NoClick, 0).ss

followOnFrame == <<last_saved, n_saves, cases, fin, tabs, batches, now, audio_responses,
                   service>>

\* the user picks the case in the select box
FollowOnSelect(case_id) ==
    /\ ss.case_selector = Null
    /\ case_id \in ValidCaseIds(get_cases_with_pending_follow_ups(cases, questions, ss.user))
    /\ \E r \in {FollowOnRun([ss EXCEPT !.case_selector = case_id],
                            drafts, questions, cases, NoClick, now)} :
          /\ ss' = r.ss
          /\ drafts' = r.drafts
          /\ questions' = r.questions
    /\ last_run' = Run("select", <<>>, Null, Null, FALSE)
    /\ UNCHANGED followOnFrame

\* the user changes the text area of a question the last run rendered: the
\* on_change callback save_followon_draft runs, then the page script
FollowOnEdit(q_id, v) ==
    /\ ss.case_selector # Null
    /\ ss.selected_followup_case = ss.case_selector
    /\ ss.selected_followup_case \in DOMAIN ss.followup_answers
    /\ q_id \in 1..Len(questions)
    /\ questions[q_id].case_id = ss.selected_followup_case
    /\ questions[q_id].answer_text # "N/A"
    /\ GetAnswer(ss.followup_answers[ss.selected_followup_case], q_id) # v
    /\ LET typed == [ss EXCEPT !.followup_answers[ss.selected_followup_case] =
                                   (q_id :> v) @@ @]
           cb == save_followon_draft(typed, drafts)
       IN \E r \in {FollowOnRun(typed, cb.drafts, questions, cases, NoClick, now)} :
          /\ ss' = r.ss
          /\ drafts' = r.drafts
          /\ questions' = r.questions
    /\ last_run' = Run("edit", <<>>, Null, Null, FALSE)
    /\ UNCHANGED followOnFrame

\* the user clicks a button the run renders
FollowOnClick(click) ==
    /\ \E r \in {FollowOnRun(ss, drafts, questions, cases, click, now)} :
          /\ r.clicked
          /\ ss' = r.ss
          /\ drafts' = r.drafts
          /\ questions' = r.questions
    /\ last_run' = Run(click.button, <<>>, Null, Null, FALSE)
    /\ UNCHANGED followOnFrame

\* the user opens the page in a new browser session
FollowOnNewSession ==
    /\ last_run.op # "open"
    /\ \E r \in {FollowOnRun(FreshFollowOn(ss.user, now), drafts, questions, cases, NoClick, now)} :
          /\ ss' = r.ss
          /\ drafts' = r.drafts
          /\ questions' = r.questions
    /\ last_run' = Run("open", <<>>, Null, Null, FALSE)
    /\ UNCHANGED followOnFrame

NextFollowOn ==
    \/ \E i \in 1..Len(cases) : FollowOnSelect(cases[i].case_id)
    \/ \E q_id \in 1..2, v \in FollowOnTexts : FollowOnEdit(q_id, v)
    \/ \E click \in FollowOnClicks : FollowOnClick(click)
    \/ FollowOnNewSession

SpecFollowOn == InitFollowOn /\ [][NextFollowOn]_vars

\* C11: once the answer_text of a follow-up question is the literal "N/A",
\* no step of the answering page changes it.
C11_NATerminal ==
    [][\A q \in 1..Len(questions) :
          questions[q].answer_text = "N/A" => questions'[q].answer_text = "N/A"]_vars

\* every question of the ledger has a non-null answer
AllAnswered(qtbl) == \A q \in 1..Len(qtbl) : qtbl[q].answer_text # Null

\* C12: when a page run supplies the last missing answer of the case, the
\* follow-up draft of (owner, "follow_on_<form kind>") does not exist when
\* the run finishes.
C12_DraftDeletedWhenComplete ==
    [][(AllAnswered(questions') /\ ~AllAnswered(questions)) =>
          ~has_draft_case(drafts', ss.user, FollowOnDraftKey(cases[1].intake_version))]_vars

(***************************************************************************)
(* Generation failures in the Save Case handler, checked on SpecPage       *)
(***************************************************************************)
\* the fields clear_form_state resets hold their empty values
FormCleared(s) ==
    /\ s.age = NoneInt
    /\ s.gender = "" /\ s.race = "" /\ s.state = ""
    /\ \A q \in DOMAIN s.answers : s.answers[q] = ""
    /\ \A q \in DOMAIN s.audio : s.audio[q] = Null
    /\ ~s.draft_loaded

\* C13: when the generation of the follow-up questions fails (no API key, a
\* failed service call, or a reply with no question) after the Case was
\* written, the Case row stays stored as written, the case has no follow-up
\* question, and the submission runs to its end with the form cleared: no
\* error is raised and the form the page renders next is empty.
C13_GenerationFailureKeepsCase ==
    [][(SaveCaseRun /\ last_run'.generated = "failed") =>
          /\ Len(cases') = Len(cases) + 1
          /\ SubSeq(cases', 1, Len(cases)) = cases
          /\ cases'[Len(cases')].case_id = last_run'.case_id
          /\ cases'[Len(cases')].answers_json = RenderWidgets(ss).answers
          /\ questions' = questions
          /\ RowsOfCase(questions', last_run'.case_id) = <<>>
          /\ last_run'.raised = Null
          /\ FormCleared(ss')
          /\ FormCleared(RenderWidgets(ss'))]_vars

\* the step is a Save Case run that reached generate_follow_up_questions
GenerateInvoked == SaveCaseRun /\ last_run'.generated # "not_called"

MaxFreeLines == 3

T_why == <<"Why", "?">>
T_next == <<"What", " ", "next", "?">>
T_when == <<"When", " ", "exactly", "?">>
T_who == <<"Who", "?">>

\* the i-th question text of a sectioned reply
QuestionTexts == <<T_why, T_next, T_when, T_who, T_why, T_next>>

Hdr(sec) == [type |-> "hdr", sec |-> sec]
Q(number, mark, indent, text) ==
    [type |-> "q", number |-> number, mark |-> mark, indent |-> indent, text |-> text]
Cont(text) == [type |-> "cont", text |-> text]
Blank == [type |-> "blank"]

\* the text of a line
RenderLine(d) ==
    CASE d.type = "hdr" ->
            (CASE d.sec = "A" -> L_hdrA [] d.sec = "B" -> L_hdrB [] d.sec = "C" -> L_hdrC)
      [] d.type = "q" ->
            (IF d.indent THEN <<WS, WS>> ELSE <<>>)
                \o str(d.number) \o <<d.mark>> \o <<WS>> \o d.text
      [] d.type \in {"cont", "other"} -> d.text
      [] d.type = "blank" -> <<>>

\* response_text.strip().split("\n") of the reply made of the lines
RenderReply(src) == [i \in 1..Len(src) |-> RenderLine(src[i])]

\* a numbered list of n questions, the first numbered first, with the texts
\* from position t of QuestionTexts on
NumberedList(n, first, t, mark, indent) ==
    [i \in 1..n |-> Q(first + i - 1, mark, indent, QuestionTexts[t + i])]

\* the three section markers, each followed by a numbered list of nA, nB and
\* nC lines; the numbering restarts in every section or runs through from
\* start; a blank line may separate the sections
SectionedReply(nA, nB, nC, start, through, mark, indent, spaced) ==
    LET gap == IF spaced THEN <<Blank>> ELSE <<>>
        firstB == IF through THEN start + nA ELSE start
        firstC == IF through THEN start + nA + nB ELSE start
    IN <<Hdr("A")>> \o NumberedList(nA, start, 0, mark, indent) \o gap
       \o <<Hdr("B")>> \o NumberedList(nB, firstB, nA, mark, indent) \o gap
       \o <<Hdr("C")>> \o NumberedList(nC, firstC, nA + nB, mark, indent)

SectionedReplies ==
    {SectionedReply(nA, nB, nC, start, through, mark, indent, spaced) :
        nA \in 1..2, nB \in 1..2, nC \in 1..2, start \in {1, 9}, through \in BOOLEAN,
        mark \in {".", ")"}, indent \in BOOLEAN, spaced \in BOOLEAN}

\* a line that is neither a header nor a question with its text nor a plain
\* continuation: it starts like a section marker or like a number
Other(text) == [type |-> "other", text |-> text]

FreeLines ==
    {Hdr("A"), Hdr("B"),
     Q(1, ".", FALSE, T_why), Q(2, ")", TRUE, T_next),
     Cont(<<"exactly", "?">>), Cont(<<WS, "and", WS, "then", WS>>), Cont(L_prose),
     Other(<<"B", ")", WS, "later">>), Other(<<"3", ".">>),
     Blank}

RECURSIVE SeqsUpTo(_, _)
SeqsUpTo(S, n) ==
    IF n = 0 THEN {<<>>}
    ELSE LET shorter == SeqsUpTo(S, n - 1)
         IN shorter \cup {Append(q, x) : q \in shorter, x \in S}

FreeReplies == SeqsUpTo(FreeLines, MaxFreeLines)

\* what the call of the service does
ServiceConditions ==
    {[has_key |-> TRUE, api_ok |-> TRUE, src |-> r] : r \in SectionedReplies \cup FreeReplies}
    \cup {[has_key |-> k, api_ok |-> a, src |-> r] :
            k \in BOOLEAN, a \in BOOLEAN, r \in SeqsUpTo(FreeLines, 1)}

InitParse ==
    /\ InitDraftStore
    /\ InitCaseStore
    /\ InitLedgerStore
    /\ ss = NoSession
    /\ now = 0
    /\ audio_responses = <<>>
    /\ last_run = NoRun
    /\ service \in ServiceConditions

\* one invocation of generate_follow_up_questions
Generate ==
    /\ last_run = NoRun
    /\ LET g == generate_follow_up_questions(service.has_key, service.api_ok,
                                             RenderReply(service.src))
       IN last_run' = [op |-> "generate", success |-> g.success, questions |-> g.questions,
                       error_msg |-> g.error_msg, calls |-> g.calls]
    /\ UNCHANGED <<ss, now, audio_responses, service, draftVars, caseVars, ledgerVars>>

NextParse == Generate

SpecParse == InitParse /\ [][NextParse]_vars

\* the service was called and returned its reply
Replied == last_run # NoRun /\ service.has_key /\ service.api_ok

\* the reply has a numbered line with a text under a section marker
HasQuestionLine(src) ==
    \E i \in 1..Len(src) :
        src[i].type = "q" /\ \E j \in 1..(i - 1) : src[j].type = "hdr"

\* C15: a reply from which no question parses (no numbered line under any
\* section marker) makes generate return ok = False with an empty question
\* list and a non-empty error message although the call succeeded;
\* conversely ok = True implies a non-empty list and no error message.
C15_ZeroQuestionsFail ==
    last_run # NoRun =>
        /\ (Replied /\ ~HasQuestionLine(service.src)) =>
              /\ ~last_run.success
              /\ last_run.questions = <<>>
              /\ last_run.error_msg \notin {Null, ""}
        /\ last_run.success =>
              /\ last_run.questions # <<>>
              /\ last_run.error_msg = Null

\* the service answered with prose only and generate reported a failure
C15_Witness ==
    /\ Replied
    /\ service.src = <<Cont(L_prose)>>
    /\ last_run.calls = 1
    /\ ~last_run.success
    /\ last_run.error_msg = "Failed to parse follow-up questions from API response"

\* what a sectioned reply asks: one question per numbered line, in reply
\* order, under the section marker that precedes the line, with the number
\* and the text written on the line
RECURSIVE ExpectedFrom(_, _)
ExpectedFrom(src, sec) ==
    IF src = <<>> THEN <<>>
    ELSE LET d == Head(src)
         IN IF d.type = "hdr" THEN ExpectedFrom(Tail(src), d.sec)
            ELSE IF d.type = "q"
            THEN <<[section |-> sec, question_number |-> d.number,
                    question_text |-> d.text]>> \o ExpectedFrom(Tail(src), sec)
            ELSE ExpectedFrom(Tail(src), sec)

\* C16: for a reply made of the section markers A, B and C, each followed by
\* a numbered list, parsing yields exactly one question per numbered line, in
\* reply order, tagged with the enclosing section and the number of the line,
\* its text being the text after the numbering marker; generate returns
\* ok = True.
C16_SectionedReplyParses ==
    (Replied /\ service.src \in SectionedReplies) =>
        /\ last_run.success
        /\ last_run.questions = ExpectedFrom(service.src, NoSection)

\* the reply with two lines under A, one under B and one under C was parsed
\* to (A,1), (A,2), (B,1), (C,1)
C16_Witness ==
    /\ Replied
    /\ service.src = SectionedReply(2, 1, 1, 1, FALSE, ".", FALSE, FALSE)
    /\ [i \in 1..Len(last_run.questions) |->
           <<last_run.questions[i].section, last_run.questions[i].question_number>>]
         = << <<"A", 1>>, <<"A", 2>>, <<"B", 1>>, <<"C", 1>> >>
    /\ last_run.questions[2].question_text = T_next

\* the reply ends with a plain line (not blank, not starting like a number or
\* a section marker) that directly follows a question or a continuation of it
EndsWithContinuation(src) ==
    /\ Len(src) >= 2
    /\ src[Len(src)].type = "cont"
    /\ src[Len(src) - 1].type \in {"q", "cont"}
    /\ parse_follow_up_response(RenderReply(SubSeq(src, 1, Len(src) - 1))) # <<>>

\* C17: a non-empty, non-numbered line that follows a question and is not a
\* section marker is appended, joined by one space, to the text of the
\* previous question and never creates a question: the questions are those of
\* the reply without the line, the last one with the line's text added.
C17_ContinuationJoined ==
    (Replied /\ EndsWithContinuation(service.src)) =>
        LET src == service.src
            before == parse_follow_up_response(RenderReply(SubSeq(src, 1, Len(src) - 1)))
            n == Len(before)
            qs == last_run.questions
        IN /\ Len(qs) = n
           /\ \A i \in 1..(n - 1) : qs[i] = before[i]
           /\ qs[n].section = before[n].section
           /\ qs[n].question_number = before[n].question_number
           /\ qs[n].question_text
                = before[n].question_text \o <<WS>> \o strip(src[Len(src)].text)

\* a question written on two lines was parsed to one question whose text is
\* the two parts joined by one space
C17_Witness ==
    /\ Replied
    /\ service.src = <<Hdr("A"), Q(1, ".", FALSE, T_why), Cont(<<"exactly", "?">>)>>
    /\ Len(last_run.questions) = 1
    /\ last_run.questions[1].question_text = <<"Why", "?", WS, "exactly", "?">>

(***************************************************************************)
(* Session timer: src/session_timer.py and its calls at the top of the     *)
(* pages.  Specification SpecTimer: one browser session whose pages run    *)
(* when the user interacts with them, while the clock advances.            *)
(***************************************************************************)
SESSION_TIMEOUT_SECONDS == 1800
WARNING_THRESHOLD_SECONDS == 1500

\* the clock advances in steps of half a tick
TimerStep == TickSeconds \div 2

TimerPages ==
    {"1_Abbreviated_Intake", "2_Abbreviated_Intake_General", "2_Full_Intake",
     "5_Follow_On_Questions"}

\* the pages that call update_activity_time() after init_session_timer()
CallsUpdateActivity(page) == page # "2_Full_Intake"

init_session_timer(s, t) ==
    IF s = NoSession
    THEN [session_start_time |-> t, last_activity_time |-> t, last_auto_save_time |-> t]
    ELSE s

update_activity_time(s, t) == [s EXCEPT !.last_activity_time = t]

\* max(0, int(SESSION_TIMEOUT_SECONDS - elapsed)), all times whole seconds
get_time_remaining(s, t) ==
    LET remaining == SESSION_TIMEOUT_SECONDS - (t - s.session_start_time)
    IN IF remaining > 0 THEN remaining ELSE 0

should_show_warning(s, t) ==
    LET remaining == get_time_remaining(s, t)
        in_warning_zone == remaining <= SESSION_TIMEOUT_SECONDS - WARNING_THRESHOLD_SECONDS
    IN IF ~in_warning_zone THEN FALSE
       ELSE IF t - s.last_activity_time < 60 THEN FALSE
       ELSE TRUE

WarningLevel(remaining) ==
    IF remaining <= 60 THEN "critical"
    ELSE IF remaining <= 180 THEN "urgent"
    ELSE "standard"

\* what the page shows: the level of the banner, or "none"
render_session_timer_warning(s, t) ==
    IF should_show_warning(s, t) THEN WarningLevel(get_time_remaining(s, t)) ELSE "none"

InitTimer ==
    /\ InitDraftStore
    /\ InitCaseStore
    /\ InitLedgerStore
    /\ InitPageStore

\* one run of a page, started by the user's interaction with it: the timer
\* calls at the top of the script, then the banner under the title
PageRender(page) ==
    LET s0 == init_session_timer(ss, now)
        s1 == IF CallsUpdateActivity(page) THEN update_activity_time(s0, now) ELSE s0
    IN /\ ss' = s1
       /\ last_run' = [op |-> "render", page |-> page, at |-> now,
                       remaining |-> get_time_remaining(s1, now),
                       warning |-> render_session_timer_warning(s1, now)]
       /\ UNCHANGED <<now, audio_responses, service, draftVars, caseVars, ledgerVars>>

TimerTick ==
    /\ now < SESSION_TIMEOUT_SECONDS + TimerStep
    /\ now' = now + TimerStep
    /\ UNCHANGED <<ss, audio_responses, last_run, service, draftVars, caseVars, ledgerVars>>

NextTimer ==
    \/ \E page \in TimerPages : PageRender(page)
    \/ TimerTick

SpecTimer == InitTimer /\ [][NextTimer]_vars

\* seconds between the user's previous interaction (the previous page run)
\* and this one
IdleBefore == IF last_run = NoRun THEN 0 ELSE now - last_run.at

\* C19: on a page render the session-timeout warning is shown when at most
\* 5 minutes of the 30-minute limit remain and the user was not active in
\* the preceding 60 seconds, and only then: it is suppressed for 60 seconds
\* after activity and reappears once the user has been idle for 60 seconds;
\* its level is standard above 180 s remaining, urgent at 180 s or less and
\* critical at 60 s or less.
C19_WarningAfterIdle ==
    [][last_run' # last_run =>
          LET due == /\ last_run'.remaining <= 300
                     /\ IdleBefore >= 60
          IN /\ last_run'.remaining
                  = SESSION_TIMEOUT_SECONDS - (now - ss'.session_start_time)
                \/ last_run'.remaining = 0
             /\ (last_run'.warning # "none") <=> due
             /\ due => last_run'.warning = WarningLevel(last_run'.remaining)]_vars

(***************************************************************************)
(* Case numbering on the pages: get_case_numbers_by_type in                *)
(* src/pages/5_Follow_On_Questions.py, src/pages/4_Follow_On_Questions.py  *)
(* and src/pages/4_Case_Viewer.py.  Specification SpecNumber: users        *)
(* finalize cases and open the pages that list them.                       *)
(***************************************************************************)
NumberingPages == {"5_Follow_On_Questions", "4_Follow_On_Questions", "4_Case_Viewer"}

\* the pages whose loop has a branch for intake_version == "abbrev_gen"
HasGeneralBranch(page) == page # "4_Follow_On_Questions"

\* get_cases_by_user_name: the owner's rows by created_at ascending
get_cases_by_user_name(tbl, user_name) ==
    LET RECURSIVE Rows(_)
        Rows(n) ==
            IF n = 0 THEN <<>>
            ELSE IF n \in CasesOfUser(tbl, user_name) THEN Append(Rows(n - 1), tbl[n])
            ELSE Rows(n - 1)
    IN Rows(Len(tbl))

IntakeTypeLabel(page, branch) ==
    CASE page = "4_Case_Viewer" ->
            (CASE branch = "abbrev" -> "Abbreviated"
               [] branch = "abbrev_gen" -> "Abbrev General"
               [] branch = "full" -> "Full")
      [] OTHER ->
            (CASE branch = "abbrev" -> "Abbreviated Intake"
               [] branch = "abbrev_gen" -> "Abbreviated General"
               [] branch = "full" -> "Full Intake")

\* the loop over the cases: the counters and the dict after the first n cases
RECURSIVE NumberLoop(_, _, _)
NumberLoop(page, all_cases, n) ==
    IF n = 0
    THEN [abbrev_count |-> 0, abbrev_gen_count |-> 0, full_count |-> 0,
          case_numbers |-> <<>>]
    ELSE LET acc == NumberLoop(page, all_cases, n - 1)
             case == all_cases[n]
             branch == IF case.intake_version = "abbrev" THEN "abbrev"
                       ELSE IF HasGeneralBranch(page) /\ case.intake_version = "abbrev_gen"
                       THEN "abbrev_gen"
                       ELSE "full"
             count == (CASE branch = "abbrev" -> acc.abbrev_count
                         [] branch = "abbrev_gen" -> acc.abbrev_gen_count
                         [] branch = "full" -> acc.full_count) + 1
             entry == [case_id |-> case.case_id,
                       intake_type |-> IntakeTypeLabel(page, branch),
                       case_num |-> count]
             kept == SelectSeq(acc.case_numbers, LAMBDA e : e.case_id # case.case_id)
         IN [abbrev_count |-> IF branch = "abbrev" THEN count ELSE acc.abbrev_count,
             abbrev_gen_count |-> IF branch = "abbrev_gen" THEN count
                                  ELSE acc.abbrev_gen_count,
             full_count |-> IF branch = "full" THEN count ELSE acc.full_count,
             case_numbers |-> Append(kept, entry)]

\* the dict case_id -> (intake type label, number), as its items
get_case_numbers_by_type(page, all_cases) ==
    NumberLoop(page, all_cases, Len(all_cases)).case_numbers

InitNumber ==
    /\ InitDraftStore
    /\ InitCaseStore
    /\ InitLedgerStore
    /\ InitPageStore

\* a user opens a page that lists the cases with their display numbers
ViewCases(page, user_name) ==
    /\ last_run' = [op |-> "view", page |-> page, user_name |-> user_name,
                    case_numbers |->
                        get_case_numbers_by_type(page, get_cases_by_user_name(cases, user_name))]
    /\ UNCHANGED <<ss, now, audio_responses, service, draftVars, caseVars, ledgerVars>>

\* two spellings of one owner and another owner
NumberUsers == {JD_upper, JD_lower, K_user}

NextNumber ==
    \/ \E u \in NumberUsers, k \in FormKinds, db_ok \in BOOLEAN : Finalize(u, k, db_ok)
    \/ \E page \in NumberingPages, u \in NumberUsers : ViewCases(page, u)

SpecNumber == InitNumber /\ [][NextNumber]_vars

\* the 1-based position of row i among the rows of its owner and form kind,
\* in creation order
PositionInKind(tbl, i) ==
    Cardinality({j \in CasesOfUser(tbl, tbl[i].user_name) :
                    j <= i /\ tbl[j].intake_version = tbl[i].intake_version})

\* C20: the display number of a case is its 1-based position among the
\* owner's cases of the same form kind ordered by creation time; abbreviated,
\* abbreviated-general and full count independently, and the number comes
\* from the position in the list, never from the stored case_id.
C20_NumberIsPositionInKind ==
    [][last_run' # last_run =>
          \A i \in CasesOfUser(cases, last_run'.user_name) :
              \E e \in {last_run'.case_numbers[k] : k \in 1..Len(last_run'.case_numbers)} :
                  /\ e.case_id = cases[i].case_id
                  /\ e.case_num = PositionInKind(cases, i)]_vars

(***************************************************************************)
(* Resume banner of the intake pages: load_draft_to_session, the draft     *)
(* check and the banner of src/pages/1_Abbreviated_Intake.py (the same     *)
(* code is in the two other intake pages).  Specification SpecBanner: a    *)
(* draft was left by an earlier session; the user opens the page, may use  *)
(* the form under the banner, and clicks Resume Draft or Start Fresh.      *)
(***************************************************************************)
\* drafts an earlier session left; their values differ from every value the
\* user enters in this session
B_full == [age |-> 70, gender |-> "Male", race |-> "White", state |-> "Utah",
           answers |-> (PageQ :> "old"), audio |-> (PageQ :> FALSE)]
B_part == [age |-> NoneInt, gender |-> Null, race |-> "White", state |-> Null,
           answers |-> (PageQ :> "old"), audio |-> (PageQ :> TRUE)]
B_blank == [age |-> NoneInt, gender |-> Null, race |-> Null, state |-> Null,
            answers |-> (PageQ :> ""), audio |-> (PageQ :> FALSE)]

BannerDrafts == {B_full, B_part, B_blank}

\* load_draft_to_session: the demographics dict takes the draft's columns
\* ("or ''" for the texts), a widget key is set when the column has a value,
\* and the answers and their text areas are set for every question
load_draft_to_session(s, draft) ==
    [s EXCEPT
        !.age = draft.age_at_snf_stay,
        !.gender = IF Truthy(draft.gender) THEN draft.gender ELSE "",
        !.race = IF Truthy(draft.race) THEN draft.race ELSE "",
        !.state = IF Truthy(draft.state) THEN draft.state ELSE "",
        !.answers = [q \in DOMAIN @ |->
                        IF q \in DOMAIN draft.answers_json THEN draft.answers_json[q] ELSE ""],
        !.draft_loaded = TRUE]

\* "Handle pending draft - show resume/discard banner"
BannerShown(s) == s.pending_draft # NoDraft /\ ~s.draft_loaded

\* st.rerun() in the banner, which is above the form: the run ends before
\* any form widget is called, so the widgets that have no value assigned
\* through st.session_state start from their defaults in the next run
RerunBeforeForm(s) == [s EXCEPT !.pending_draft = NoDraft, !.audio_widget = Null]

\* one click on a banner button: the run that handles it and the run that
\* st.rerun() starts
BannerScript(s, tbl, t, click) ==
    LET checked == DraftCheck(s, tbl)
    IN IF click = "resume"
       THEN ScriptToButtons(
                RerunBeforeForm(load_draft_to_session(checked, checked.pending_draft)),
                tbl, t, NoEdit)
       ELSE ScriptToButtons(
                RerunBeforeForm(clear_form_state(checked)),
                delete_draft_case(tbl, get_draft_case(tbl, s.user, s.kind)),
                t, NoEdit)

InitBanner ==
    /\ InitCaseStore
    /\ InitLedgerStore
    /\ last_saved = [s \in Slots |-> NoSave]
    /\ n_saves = [s \in Slots |-> 0]
    /\ now = 0
    /\ audio_responses = <<>>
    /\ service = NoService
    /\ \E kind \in FormKinds, p \in BannerDrafts :
          /\ drafts = save_draft_case(EmptyBag, NoDraft, PageUser, kind, p)
          /\ ss = FirstRun(kind, drafts, 0).ss
    /\ last_run = Run("open", <<>>, Null, Null, FALSE)

\* the "Resume Draft" and "Start Fresh" buttons
ClickBanner(click) ==
    /\ BannerShown(ss)
    /\ LET r == BannerScript(ss, drafts, now, click)
       IN /\ ss' = r.ss
          /\ drafts' = r.drafts
          /\ last_run' = Run(click, <<>>, Null, Null, r.saved)
    /\ UNCHANGED <<cases, questions, audio_responses, pageFrame>>

\* the user opens the page in a new browser session
BannerNewSession ==
    /\ last_run.op # "open"
    /\ LET r == ScriptToButtons(FreshSession(PageUser, ss.kind, now), drafts, now, NoEdit)
       IN /\ ss' = r.ss
          /\ drafts' = r.drafts
          /\ last_run' = Run("open", <<>>, Null, Null, r.saved)
    /\ UNCHANGED <<cases, questions, audio_responses, pageFrame>>

NextBanner ==
    \/ \E e \in PageEdits : Edit(e)
    \/ ClickSaveDraft
    \/ \E click \in {"resume", "discard"} : ClickBanner(click)
    \/ BannerNewSession
    \/ Tick

SpecBanner == InitBanner /\ [][NextBanner]_vars

\* the form holds a value that only a draft of an earlier session has
HoldsDraftValue(s) ==
    \/ s.age = B_full.age
    \/ s.gender = B_full.gender
    \/ s.race = B_full.race
    \/ s.state = B_full.state
    \/ s.answers[PageQ] = B_full.answers[PageQ]

\* C18: on page entry with an existing draft of the (owner, form kind) the
\* draft is never loaded into the form silently: the form takes values of
\* the draft only in the step in which the user chooses Resume; and choosing
\* Start Fresh deletes the stored draft and resets every form field to empty.
C18_BannerDecides ==
    [][/\ (HoldsDraftValue(ss') /\ ~HoldsDraftValue(ss)) => last_run'.op = "resume"
       /\ (last_run'.op = "discard" /\ ss' # ss) =>
             /\ ~has_draft_case(drafts', ss'.user, ss'.kind)
             /\ FormCleared(ss')
             /\ FormCleared(RenderWidgets(ss'))]_vars

(***************************************************************************)
(* Owner and form kind matching of the draft operations (SpecDraft)        *)
(***************************************************************************)
\* C21: the draft operations match the owner whatever the letter case of the
\* name and the form kind exactly: a draft saved under one spelling of the
\* owner name is the one get_draft_case returns and has_draft_case reports
\* under every other spelling, a save under another spelling overwrites it
\* (one row, the last content), a delete under another spelling removes it,
\* and it is not visible under another form kind.
C21_OwnerCaseInsensitive ==
    \A u \in DraftUsers, k \in DraftKinds :
        LET key == <<lower(u), k>>
            d == get_draft_case(drafts, u, k)
        IN /\ n_saves[key] >= 1 =>
                 /\ has_draft_case(drafts, u, k)
                 /\ DraftCount(drafts, u, k) = 1
                 /\ d # NoDraft
                 /\ lower(d.user_name) = lower(u)
                 /\ d.intake_version = k
                 /\ d.age_at_snf_stay = last_saved[key].age
                 /\ d.answers_json = json_dumps(OrEmptyDict(last_saved[key].answers))
           /\ n_saves[key] = 0 =>
                 /\ ~has_draft_case(drafts, u, k)
                 /\ d = NoDraft

\* a draft saved as "J D" for the abbreviated form is returned to "j d", and
\* neither spelling sees a draft of the full form
C21_Witness ==
    /\ n_saves[<<JD_lower, "abbrev">>] = 1
    /\ n_saves[<<JD_lower, "full">>] = 0
    /\ get_draft_case(drafts, JD_lower, "abbrev").user_name = JD_upper
    /\ has_draft_case(drafts, JD_lower, "abbrev")
    /\ ~has_draft_case(drafts, JD_lower, "full")
    /\ ~has_draft_case(drafts, JD_upper, "full")

(***************************************************************************)
(* update_follow_up_answer on existing and missing question ids            *)
(* (SpecAnswer)                                                            *)
(***************************************************************************)
\* the step is a call of update_follow_up_answer
AnswerCall == cases' = cases /\ last_run' # NoRun /\ last_run'.op = "answer"

\* C22: update_follow_up_answer on an existing question sets the answer_text
\* of that question to the text and its answered_at to the time of the call,
\* returns true and changes no other question; on a question id that does
\* not exist it returns false and changes no stored state.
C22_AnswerOneQuestion ==
    [][AnswerCall =>
          LET id == last_run'.question_id
          IN IF id \in 1..Len(questions)
             THEN /\ last_run'.ok
                  /\ Len(questions') = Len(questions)
                  /\ questions'[id] = [questions[id] EXCEPT
                                          !.answer_text = last_run'.answer_text,
                                          !.answered_at = now]
                  /\ \A i \in 1..Len(questions) : i # id => questions'[i] = questions[i]
             ELSE /\ ~last_run'.ok
                  /\ UNCHANGED <<questions, cases, batches, drafts>>]_vars

\* an answer was stored for one of two questions of a case, and a call for a
\* question id that does not exist returned false
C22_Witness ==
    /\ last_run # NoRun
    /\ last_run.question_id = Len(questions) + 1
    /\ ~last_run.ok
    /\ \E i, j \in 1..Len(questions) :
          /\ questions[i].case_id = questions[j].case_id
          /\ questions[i].answer_text = "ans" /\ questions[i].answered_at = now
          /\ questions[j].answer_text = Null /\ questions[j].answered_at = Null

(***************************************************************************)
(* The order of the calls in one submission (SpecPage)                     *)
(***************************************************************************)
\* call x was made before call y in the run
CalledBefore(steps, x, y) ==
    /\ CallIndex(steps, x) # 0
    /\ CallIndex(steps, y) # 0
    /\ CallIndex(steps, x) < CallIndex(steps, y)

\* the run was a Save Case click that passed validation and raised nothing
SubmissionSucceeded(run) ==
    run.op = "save_case" /\ run.errors = <<>> /\ run.raised = Null

PageQuestionIds(kind) ==
    CASE kind = "abbrev" -> <<"aq1", "aq2">>
      [] kind = "abbrev_gen" -> <<"gq1", "gq2">>
      [] kind = "full" -> <<"q6", "q7">>

\* a dict in insertion order: a sequence of (qid, label) items
ABBREVIATED_QUESTION_LABELS ==
    <<[qid |-> "aq1", label |-> "Case Summary"],
      [qid |-> "aq2", label |-> "SNF Team Discharge Timing"]>>

FULL_INTAKE_QUESTION_LABELS ==
    <<[qid |-> "q6", label |-> "Case Summary"],
      [qid |-> "q7", label |-> "Referral Source and Expectation"]>>

NoAnswerProvided == "[No answer provided]"
NotProvided == "Not provided"

\* d.get(k, default)
dict_get(d, k, default) == IF k \in DOMAIN d THEN d[k] ELSE default

\* f"{x if x else 'Not provided'}"
OrNotProvided(x) == IF Truthy(x) THEN x ELSE NotProvided

\* the lines the loop over question_labels.items() appends; a line is the
\* sequence of the pieces its f-string is made of
NarrativeLines(question_labels, answers) ==
    LET RECURSIVE Loop(_, _)
        Loop(lines, i) ==
            IF i > Len(question_labels) THEN lines
            ELSE LET qid == question_labels[i].qid
                     label == question_labels[i].label
                     answer == dict_get(answers, qid, "")
                 IN IF Truthy(answer)
                    THEN Loop(lines \o << <<"", label, "(", qid, "):">>, <<answer>> >>,
                              i + 1)
                    ELSE Loop(Append(lines, <<"", label, "(", qid, "):",
                                              NoAnswerProvided>>), i + 1)
    IN Loop(<<>>, 1)

\* the user message, as the list of lines that is joined with newlines
format_case_for_prompt(intake_version, demographics, services, answers) ==
    LET question_labels ==
            IF intake_version = "abbrev" THEN ABBREVIATED_QUESTION_LABELS
            ELSE FULL_INTAKE_QUESTION_LABELS
    IN << <<"=== PATIENT DEMOGRAPHICS ===">>,
          <<"Age at SNF Stay:">> \o str(demographics.age_at_snf_stay),
          <<"Gender:", demographics.gender>>,
          <<"Race:", demographics.race>>,
          <<"State:", demographics.state>>,
          <<"">>,
          <<"=== SERVICE & DURATION INFORMATION ===">>,
          <<"SNF Days:", OrNotProvided(services.snf_days)>>,
          <<"Services Discussed:", OrNotProvided(services.services_discussed)>>,
          <<"Services Accepted:", OrNotProvided(services.services_accepted)>>,
          <<"">>,
          <<"=== CASE NARRATIVE ANSWERS ===">> >>
       \o NarrativeLines(question_labels, answers)

PromptAges == {0, 65}
PromptAnswers == {"", "a", "b", AudioMarker}

\* the form of an intake page with the required fields filled in
PromptForm(kind) ==
    [kind |-> kind, age |-> 65, gender |-> "Female", race |-> "Asian",
     state |-> "Ohio",
     answers |-> [q \in {PageQuestionIds(kind)[i] : i \in 1..Len(PageQuestionIds(kind))}
                    |-> ""]]

InitPrompt ==
    /\ InitDraftStore
    /\ InitCaseStore
    /\ InitLedgerStore
    /\ now = 0
    /\ audio_responses = <<>>
    /\ service = NoService
    /\ \E kind \in FormKinds : ss = PromptForm(kind)
    /\ last_run = NoRun

promptFrame == <<now, audio_responses, service, draftVars, caseVars, ledgerVars>>

\* the user types into the text area of question qid
TypeAnswer(qid, text) ==
    /\ qid \in DOMAIN ss.answers
    /\ ss.answers[qid] # text
    /\ ss' = [ss EXCEPT !.answers[qid] = text]
    /\ UNCHANGED <<last_run, promptFrame>>

\* the user changes the age field
TypeAge(age) ==
    /\ ss.age # age
    /\ ss' = [ss EXCEPT !.age = age]
    /\ UNCHANGED <<last_run, promptFrame>>

\* generate_follow_up_questions is called by the Save Case handler with the
\* form's demographics, services and answers, and builds the user message
SendPrompt ==
    /\ last_run' =
          [op |-> "generate", intake_version |-> ss.kind, answers |-> ss.answers,
           user_message |->
               format_case_for_prompt(ss.kind,
                   [age_at_snf_stay |-> ss.age, gender |-> ss.gender,
                    race |-> ss.race, state |-> ss.state],
                   [snf_days |-> Null, services_discussed |-> Null,
                    services_accepted |-> Null],
                   ss.answers)]
    /\ UNCHANGED <<ss, promptFrame>>

NextPrompt ==
    \/ \E kind \in FormKinds :
          \E i \in 1..Len(PageQuestionIds(kind)), text \in PromptAnswers :
             TypeAnswer(PageQuestionIds(kind)[i], text)
    \/ \E age \in PromptAges : TypeAge(age)
    \/ SendPrompt

SpecPrompt == InitPrompt /\ [][NextPrompt]_vars

\* line i of the message is the heading of question qid and the next line
\* is the text
AnswerUnderQuestion(lines, qid, text) ==
    \E i \in 1..(Len(lines) - 1) :
        /\ Len(lines[i]) = 5 /\ lines[i][4] = qid
        /\ lines[i + 1] = <<text>>

\* a line of the message is the heading of question qid followed by the
\* placeholder
PlaceholderForQuestion(lines, qid) ==
    \E i \in 1..Len(lines) :
        /\ Len(lines[i]) = 6 /\ lines[i][4] = qid
        /\ lines[i][6] = NoAnswerProvided

\* C24: for every form kind the user message contains every narrative
\* answer of the submitted case under its question, and the placeholder
\* "[No answer provided]" for every blank answer.
C24_PromptHasEveryAnswer ==
    last_run # NoRun =>
        \A qid \in DOMAIN last_run.answers :
            IF last_run.answers[qid] # ""
            THEN AnswerUnderQuestion(last_run.user_message, qid, last_run.answers[qid])
            ELSE PlaceholderForQuestion(last_run.user_message, qid)

(***************************************************************************)
(* Specification SpecAutoSave: a browser session is open on an intake page *)
(* or on the answering page.  On the intake page the user edits, the page  *)
(* reruns with the database reachable or not, Save Draft is clicked and    *)
(* time passes; on the answering page the user selects, types and clicks.  *)
(***************************************************************************)
MaxAutoSaveTicks == 4

OnIntake(s) == "age" \in DOMAIN s
OnFollowOn(s) == "followup_answers" \in DOMAIN s

InitAutoSave == InitPage \/ InitFollowOn

\* a run of the intake page script with one widget changed or none, up to
\* the buttons row, no button clicked
TimedRun(e, db_ok) ==
    /\ OnIntake(ss)
    /\ IF e = NoEdit THEN TRUE ELSE EditEnabled(ss, e)
    /\ LET r == AutoSaveCheckOn(RenderWidgets(ApplyEdit(DraftCheck(ss, drafts), e)),
                                drafts, now, db_ok)
       IN /\ ss' = r.ss
          /\ drafts' = r.drafts
          /\ last_run' = Run(IF e = NoEdit THEN "rerun" ELSE "edit", <<>>, Null, Null,
                             r.saved) @@ [db_ok |-> db_ok]
    /\ UNCHANGED <<cases, questions, audio_responses, pageFrame>>

\* time passes while the intake page is open
AutoSaveTick ==
    /\ OnIntake(ss)
    /\ now + TickSeconds <= MaxAutoSaveTicks * TickSeconds
    /\ now' = now + TickSeconds
    /\ UNCHANGED <<ss, audio_responses, last_run, service, draftVars, caseVars, ledgerVars>>

NextAutoSave ==
    \/ \E e \in PageEdits \cup {NoEdit}, db_ok \in BOOLEAN : TimedRun(e, db_ok)
    \/ OnIntake(ss) /\ ClickSaveDraft
    \/ AutoSaveTick
    \/ OnFollowOn(ss) /\ NextFollowOn

SpecAutoSave == InitAutoSave /\ [][NextAutoSave]_vars

\* the step is a run of the intake page in which no button was clicked
TimerPathRun ==
    /\ OnIntake(ss)
    /\ now' = now
    /\ last_run'.op \in {"rerun", "edit"}

\* the step is a text-field change on the answering page
TextFieldChange == OnFollowOn(ss) /\ last_run'.op = "edit"

\* the stored draft of the intake form holds what the form holds
DraftHoldsForm(tbl, s) ==
    /\ DraftCount(tbl, s.user, s.kind) = 1
    /\ LET d == get_draft_case(tbl, s.user, s.kind)
       IN /\ d.age_at_snf_stay = s.age
          /\ d.gender = OrNone(s.gender)
          /\ d.race = OrNone(s.race)
          /\ d.state = OrNone(s.state)
          /\ d.answers_json = json_dumps(s.answers)

\* the stored follow-up draft holds the selected case and its typed answers
DraftHoldsAnswers(tbl, s) ==
    LET key == FollowOnDraftKey(s.followon_case_intake_version)
    IN /\ DraftCount(tbl, s.user, key) = 1
       /\ get_draft_case(tbl, s.user, key).answers_json =
              json_dumps(FollowOnPayload(s).answers)

C25_WitnessAnswering ==
    /\ OnFollowOn(ss)
    /\ last_run.op = "edit"
    /\ DraftHoldsAnswers(drafts, ss)
    /\ \E q \in DOMAIN FollowOnPayload(ss).answers.answers :
          FollowOnPayload(ss).answers.answers[q] = "ans"

(***************************************************************************)
(* The stored draft while the resume banner is pending (SpecBanner)        *)
(***************************************************************************)
\* the step is a run of the page in which the banner was shown before and
\* is still shown after, and no button was clicked
PendingRender ==
    /\ BannerShown(ss)
    /\ BannerShown(ss')
    /\ last_run'.op = "edit"

\* C26: while the Resume / Start Fresh banner is pending, no run of the
\* page in which the user clicked no button changes the stored draft row.
C26_PendingDraftKept ==
    [][PendingRender =>
          get_draft_case(drafts', ss.user, ss.kind) =
              get_draft_case(drafts, ss.user, ss.kind)]_vars

(***************************************************************************)
(* A submission after its Case row is committed (SpecPage)                 *)
(***************************************************************************)
\* the step is a Save Case click whose create_case committed a row
CommittedSubmission == SaveCaseRun /\ Len(cases') = Len(cases) + 1

\* C27: a submission that committed its Case row ends with the draft of the
\* (owner, form kind) deleted and the form state cleared, whatever the later
\* calls of the handler do, so that the form it leaves cannot be submitted
\* again.
C27_CommitClearsForm ==
    [][CommittedSubmission =>
          /\ ~has_draft_case(drafts', ss.user, ss.kind)
          /\ FormCleared(ss')
          /\ validate(ss'.age, ss'.gender, ss'.race, ss'.state) # <<>>]_vars

(***************************************************************************)
(* Case ids of different owners (SpecCase)                                 *)
(***************************************************************************)
\* the two user names are different owners: they differ other than by
\* letter case
DifferentOwners(u, v) == lower(u) # lower(v)

\* C28: two finalizations by different owners never derive the same
\* case_id; in particular no finalization derives the case_id of a Case
\* that another owner has committed.
C28_OwnersNeverShareCaseId ==
    \A i, j \in 1..Len(fin) :
        (fin[i].ok /\ DifferentOwners(fin[i].user_name, fin[j].user_name)) =>
            fin[i].case_id # fin[j].case_id

(***************************************************************************)
(* Follow-up questions and their answers over time (SpecFollowOn)          *)
(***************************************************************************)
\* the number of questions of the case that have an answer
CountAnswered(tbl, case_id) == CountQuestions(tbl, case_id) - CountUnanswered(tbl, case_id)

\* the case is listed as complete in the pending summary
IsComplete(ctbl, qtbl, i) == PendingEntry(qtbl, ctbl[i]).is_complete

\* C29: no step of the answering page deletes a follow-up question or
\* moves it to another case, and an answer_text that is not null never
\* becomes null or empty; so the answered count of a case never decreases
\* and a case that is complete in the pending summary stays complete.
C29_AnswersNeverRevert ==
    [][/\ Len(questions') >= Len(questions)
       /\ \A i \in 1..Len(questions) :
             /\ questions'[i].id = questions[i].id
             /\ questions'[i].case_id = questions[i].case_id
             /\ questions'[i].question_text = questions[i].question_text
             /\ questions[i].answer_text # Null =>
                   /\ questions'[i].answer_text # Null
                   /\ StripAnswer(questions'[i].answer_text) # ""
       /\ \A i \in 1..Len(cases) :
             /\ CountAnswered(questions', cases[i].case_id)
                   >= CountAnswered(questions, cases[i].case_id)
             /\ IsComplete(cases, questions, i) => IsComplete(cases', questions', i)]_vars

\* the case is complete, one question answered "N/A" and one with a text,
\* and the user has since emptied a text area and clicked Save All Answers
C29_Witness ==
    /\ Len(questions) = 2
    /\ IsComplete(cases, questions, 1)
    /\ \E i, j \in 1..2 : questions[i].answer_text = "N/A" /\ questions[j].answer_text = "ans"
    /\ last_run.op = "save_all"
    /\ \E q \in 1..2 :
          StripAnswer(GetAnswer(AnswersOf(ss, ss.selected_followup_case), q)) = ""

(***************************************************************************)
(* Specification SpecAuth: authentication of a browser session             *)
(* (src/auth.py).  Two users are registered.  A browser session is opened  *)
(* with or without query parameters in its URL, the user logs in with a    *)
(* name and a PIN, logs out, and reloads the page.                         *)
(***************************************************************************)
MaxLogins == 2

\* hashlib.sha256(pin.encode()).hexdigest()
hash_pin(pin) == <<"sha256", pin>>

\* table users
Users ==
    <<[username |-> JD_upper, pin_hash |-> hash_pin("1234")],
      [username |-> K_user, pin_hash |-> hash_pin("0000")]>>

NoUser == [none |-> TRUE]
NoParams == [none |-> TRUE]

\* .filter(func.lower(User.username) == username.lower()).first()
get_user_by_username(username) ==
    LET found == {i \in 1..Len(Users) : lower(Users[i].username) = lower(username)}
    IN IF found = {} THEN NoUser
       ELSE Users[CHOOSE i \in found : \A j \in found : i <= j]

\* the same filter with User.pin_hash == hash_pin(pin)
authenticate_user(username, pin) ==
    LET found == {i \in 1..Len(Users) :
                     /\ lower(Users[i].username) = lower(username)
                     /\ Users[i].pin_hash = hash_pin(pin)}
    IN IF found = {} THEN NoUser
       ELSE Users[CHOOSE i \in found : \A j \in found : i <= j]

\* st.session_state of a new browser session, and the query parameters of
\* the URL it was opened with
FreshAuth(params) ==
    [authenticated |-> FALSE, current_user |-> NoUser, username |-> Null,
     session_token |-> Null, auth_checked |-> FALSE, query_params |-> params]

init_session_state(s) ==
    IF ~s.auth_checked /\ ~s.authenticated
    THEN LET checked == [s EXCEPT !.auth_checked = TRUE]
             params == s.query_params
         IN IF params # NoParams /\ Truthy(params.user) /\ Truthy(params.token)
               /\ get_user_by_username(params.user) # NoUser
            THEN [checked EXCEPT
                     !.authenticated = TRUE,
                     !.current_user = get_user_by_username(params.user),
                     !.username = params.user,
                     !.session_token = params.token]
            ELSE checked
    ELSE s

\* login: [ok, ss]; token is what generate_session_token returned
login(s, username, pin, token) ==
    LET user == authenticate_user(username, pin)
    IN IF user # NoUser
       THEN [ok |-> TRUE,
             ss |-> [s EXCEPT
                        !.authenticated = TRUE,
                        !.current_user = user,
                        !.username = username,
                        !.session_token = token,
                        !.query_params = [user |-> username, token |-> token]]]
       ELSE [ok |-> FALSE, ss |-> s]

logout(s) ==
    [s EXCEPT
        !.authenticated = FALSE,
        !.current_user = NoUser,
        !.username = Null,
        !.session_token = Null,
        !.auth_checked = FALSE,
        !.query_params = NoParams]

\* user names typed into the login form or put into a URL
AuthNames == {JD_upper, JD_lower, K_user, <<"x">>}
AuthPins == {"1234", "0000"}
\* secrets.token_hex gives one of the first two; the third is never issued
AuthTokens == {"t1", "t2", "guess"}
IssuedTokens == {"t1", "t2"}

AuthParams == {NoParams} \cup [user : AuthNames, token : AuthTokens]

InitAuth ==
    /\ InitDraftStore
    /\ cases = <<>>
    /\ tabs = <<>>
    /\ InitLedgerStore
    /\ now = 0
    /\ audio_responses = <<>>
    /\ service = NoService
    /\ fin = <<>>
    /\ ss = init_session_state(FreshAuth(NoParams))
    /\ last_run = [op |-> "open", params |-> NoParams]

authFrame == <<cases, tabs, now, audio_responses, service, draftVars, ledgerVars>>

\* a browser session is opened with the URL params
AuthOpen(params) ==
    /\ ss' = init_session_state(FreshAuth(params))
    /\ last_run' = [op |-> "open", params |-> params]
    /\ UNCHANGED <<fin, authFrame>>

\* the Login button of show_login_form
AuthLogin(username, pin, token) ==
    /\ ~ss.authenticated
    /\ Len(fin) < MaxLogins
    /\ LET r == login(init_session_state(ss), username, pin, token)
       IN /\ ss' = r.ss
          /\ fin' = IF r.ok THEN Append(fin, [username |-> username, token |-> token])
                     ELSE fin
          /\ last_run' = [op |-> "login", username |-> username, pin |-> pin,
                          ok |-> r.ok]
    /\ UNCHANGED authFrame

\* the Logout button, and the run st.rerun() starts
AuthLogout ==
    /\ ss.authenticated
    /\ ss' = init_session_state(logout(ss))
    /\ last_run' = [op |-> "logout"]
    /\ UNCHANGED <<fin, authFrame>>

\* the page is reloaded: a new session state, the URL kept
AuthReload ==
    /\ ss' = init_session_state(FreshAuth(ss.query_params))
    /\ last_run' = [op |-> "reload"]
    /\ UNCHANGED <<fin, authFrame>>

NextAuth ==
    \/ \E params \in AuthParams : AuthOpen(params)
    \/ \E username \in AuthNames, pin \in AuthPins, token \in IssuedTokens :
          AuthLogin(username, pin, token)
    \/ AuthLogout
    \/ AuthReload

SpecAuth == InitAuth /\ [][NextAuth]_vars

\* a login with the correct PIN of the user issued the token for that user
IssuedFor(log, username, token) ==
    \E i \in 1..Len(log) :
        /\ lower(log[i].username) = lower(username)
        /\ log[i].token = token

\* C30: a session is authenticated as a user only through a login with the
\* correct PIN of that user, or with a session token that such a login
\* issued for that user; query parameters naming an existing user with an
\* arbitrary token do not authenticate the session.
C30_AuthByPinOrIssuedToken ==
    ss.authenticated =>
        /\ get_user_by_username(ss.username) # NoUser
        /\ IssuedFor(fin, ss.username, ss.session_token)

====
